---- MODULE Spec2Model ----
(***************************************************************************)
(* A model of the INVEST-Checker bot as main.py runs it: the text          *)
(* normalizer (utils.py), the example store and its similarity search      *)
(* (db.py), the judge client with its response cache                       *)
(* (gigachat_client.py) and the handlers of messages and buttons           *)
(* (handlers.py), for one user.                                            *)
(*                                                                         *)
(* Text.  A text is a sequence of lexemes.  A lexeme is a whole word of    *)
(* the program's vocabulary, a whitespace character or a punctuation       *)
(* character; CharLen gives the number of characters a lexeme stands       *)
(* for. Cyrillic words are written in Latin transliteration:               *)
(*   kak = как, ya = я, hochu = хочу, chtoby = чтобы, chto = что,          *)
(*   by = бы, chtlby = чтлбы, chotby = чотбы, mne = мне,                   *)
(*   vostanovit = востановить, vosstanovit = восстановить,                 *)
(*   akkaunt = аккаунт, polzavatel = пользаватель, nuzhno = нужно,         *)
(*   polzovatel = пользователь, voyti = войти, dostup = доступ,            *)
(*   mogu = могу, Kak = Как (capitalised).                                 *)
(* Two different words are taken to share no characters.                   *)
(*                                                                         *)
(* Judge.  What the judge writes is a record: its score, the formatting    *)
(* passes made over it (each escapes its Markdown characters once more     *)
(* and may put a header in front), and whether it is the text of a         *)
(* judgment or the printed form of a (text, messages) pair.  A judgment    *)
(* is taken to hold a Markdown character, so that every pass changes it.   *)
(* A request to the judge is answered, fails with a server error, or, in   *)
(* the specification of the client alone, does not reach the service.      *)
(*                                                                         *)
(* Transport.  Rendering a reply either works ("ok") or raises for every   *)
(* attempt of the handler, the fallbacks included ("fail").                *)
(*                                                                         *)
(* Time.  The clock counts seconds and moves in steps of TickSeconds.      *)
(*                                                                         *)
(* Left out: the access token, the statistics counters, the memo of        *)
(* _is_valid_user_story (handlers.py imports its class from bot.py,        *)
(* which does not define it), and of bot.py's InvestBot, which main.py    *)
(* does not use, everything but its navigation history and its check of a  *)
(* fixed story.  Python's hash is taken to be injective.                   *)
(***************************************************************************)
EXTENDS Integers, Sequences, FiniteSets, TLC

VARIABLES
    nt_in,        \* normalizer harness: the input text
    nt_out,       \* normalizer harness: normalize_text(input), or NoText
    nt_out2,      \* normalizer harness: normalize_text applied twice, or NoText
    nt_phase,     \* normalizer harness: how many applications were made
    check_call,   \* InvestBot._check_and_improve_story: the call being made or last made
    db_rows,      \* ExamplesDB: the rows of table user_stories, in rowid order
    db_cache,     \* ExamplesDB._cache: find_similar's results by (query, threshold, limit)
    fs,           \* the last find_similar call made directly: its arguments and result
    in_flight,      \* a find_similar call suspended at an await: its arguments and next tier
    user_data,    \* context.user_data of the one user: a dict
    analysis_cache, \* bot_data['analysis_cache']: its items, oldest insertion first
    client,       \* GigaChatClient: response cache, error count, circuit breaker
    user_history, \* SimpleBot.user_history: each user's history, by user id
    user_sessions, \* SimpleBot.stats['user_sessions']
    nav_history,  \* InvestBot.user_history[chat_id]: the state_name of each saved screen
    last_cleanup, \* InvestBot.last_cleanup, in seconds
    now,          \* time.time(), in seconds
    last,         \* the handler last run and what it was seen to do
    judged,       \* the stories analysed by the judge whose cache entry is still there
    scenario,     \* progress of the two watched action sequences
    steps         \* messages and button presses the conversation has left

nt_vars == <<nt_in, nt_out, nt_out2, nt_phase, check_call>>

db_vars == <<db_rows, db_cache, fs, in_flight>>

sess_vars ==
    <<user_data, analysis_cache, client, user_history, user_sessions, nav_history,
      last_cleanup, now, last, judged, scenario, steps>>

vars == <<nt_vars, db_vars, sess_vars>>

\* ------------------------------------------------------------------ bounds

\* longest input text of the normalizer harness, in lexemes
MaxNormLen == 4

\* most rows the store holds
MaxRows == 2

\* most rows the store holds during a conversation
MaxStored == 1

\* highest usage count of a row
MaxUsage == 1

\* highest error count of the client
MaxErrors == 1

\* most versions an improvement chain holds
MaxChain == 3

\* most messages and button presses of one conversation
MaxSteps == 4

\* the same for the conversations that only analyse and improve
MaxChainSteps == 7

\* the seconds one step of the clock takes, and the steps it makes
TickSeconds == 200

MaxTicks == 2

\* ------------------------------------------------------------------ text

NoText == <<"<none>">>

Whitespace == {" ", "TAB"}

Punctuation == {",", "."}

IsSpace(a) == a \in Whitespace

\* str.lower() on one lexeme
LowerAtom(a) ==
    CASE a = "Kak" -> "kak"
      [] a = "Chtoby" -> "chtoby"
      [] OTHER -> a

\* the number of characters a lexeme stands for
CharLen(a) ==
    CASE a \in Whitespace \cup Punctuation -> 1
      [] a \in {"ya"} -> 1
      [] a \in {"by"} -> 2
      [] a \in {"kak", "Kak", "chto", "mne"} -> 3
      [] a \in {"hochu"} -> 4
      [] a \in {"chtoby", "Chtoby", "chtlby", "chotby", "voyti", "nuzhno"} -> 5
      [] a \in {"dostup"} -> 6
      [] a \in {"akkaunt"} -> 7
      [] a \in {"vostanovit"} -> 11
      [] a \in {"vosstanovit", "polzavatel", "polzovatel"} -> 12
      [] OTHER -> 4

RECURSIVE TextLen(_)
TextLen(t) == IF t = <<>> THEN 0 ELSE CharLen(Head(t)) + TextLen(Tail(t))

Lower(t) == [i \in 1..Len(t) |-> LowerAtom(t[i])]

RECURSIVE LStrip(_)
LStrip(t) == IF t # <<>> /\ IsSpace(Head(t)) THEN LStrip(Tail(t)) ELSE t

RECURSIVE RStrip(_)
RStrip(t) ==
    IF t # <<>> /\ IsSpace(t[Len(t)]) THEN RStrip(SubSeq(t, 1, Len(t) - 1)) ELSE t

\* str.strip()
Strip(t) == RStrip(LStrip(t))

IsPrefix(p, t) == Len(p) <= Len(t) /\ SubSeq(t, 1, Len(p)) = p

\* str.replace(pat, rep): every non-overlapping occurrence, left to right
RECURSIVE Replace(_, _, _)
Replace(t, pat, rep) ==
    IF t = <<>> THEN <<>>
    ELSE IF IsPrefix(pat, t)
         THEN rep \o Replace(SubSeq(t, Len(pat) + 1, Len(t)), pat, rep)
         ELSE <<Head(t)>> \o Replace(Tail(t), pat, rep)

\* the substitution table of normalize_text, in the dict's order
common_typos ==
    << <<<<"chtlby">>, <<"chtoby">>>>,
       <<<<"chto", " ", "by">>, <<"chtoby">>>>,
       <<<<"chotby">>, <<"chtoby">>>>,
       <<<<"vostanovit">>, <<"vosstanovit">>>>,
       <<<<"akkaunt">>, <<"akkaunt">>>>,
       <<<<"polzavatel">>, <<"polzovatel">>>> >>

RECURSIVE ReplaceTypos(_, _)
ReplaceTypos(t, i) ==
    IF i > Len(common_typos) THEN t
    ELSE ReplaceTypos(Replace(t, common_typos[i][1], common_typos[i][2]), i + 1)

\* re.sub(r'[^\w\s]', ' ', text)
PunctToSpace(t) == [i \in 1..Len(t) |-> IF t[i] \in Punctuation THEN " " ELSE t[i]]

\* re.sub(r'\s+', ' ', text)
RECURSIVE CollapseWs(_)
CollapseWs(t) ==
    IF t = <<>> THEN <<>>
    ELSE IF IsSpace(Head(t))
         THEN <<" ">> \o CollapseWs(LStrip(t))
         ELSE <<Head(t)>> \o CollapseWs(Tail(t))

normalize_text(text) ==
    IF text = <<>> THEN <<>>
    ELSE Strip(CollapseWs(PunctToSpace(ReplaceTypos(Strip(Lower(text)), 1))))

\* ------------------------------------------------------ the example store

\* str.split(): the maximal runs of non-whitespace lexemes
RECURSIVE SplitFrom(_, _)
SplitFrom(t, cur) ==
    IF t = <<>> THEN (IF cur = <<>> THEN <<>> ELSE <<cur>>)
    ELSE IF IsSpace(Head(t))
         THEN (IF cur = <<>> THEN <<>> ELSE <<cur>>) \o SplitFrom(Tail(t), <<>>)
         ELSE SplitFrom(Tail(t), Append(cur, Head(t)))

Split(t) == SplitFrom(t, <<>>)

\* ' '.join(words)
RECURSIVE JoinWords(_)
JoinWords(ws) ==
    IF ws = <<>> THEN <<>>
    ELSE IF Len(ws) = 1 THEN ws[1]
    ELSE ws[1] \o <<" ">> \o JoinWords(Tail(ws))

\* ExamplesDB._normalize_query: lower, strip, single spaces; punctuation and
\* misspellings are kept
normalize_query(text) == JoinWords(Split(Strip(Lower(text))))

\* substring test: `kw in text`, and SQL's LIKE '%' || kw || '%'
Contains(text, kw) ==
    \E i \in 0..(Len(text) - Len(kw)) : SubSeq(text, i + 1, i + Len(kw)) = kw

\* the stop words of _extract_keywords
stop_words ==
    {<<"kak">>, <<"ya">>, <<"hochu">>, <<"chtoby">>, <<"mne">>, <<"nuzhno">>,
     <<"mozhno">>, <<"chto">>, <<"by">>}

\* a word has to be longer than this many characters to be a keyword
MinKeywordLen == 3

\* at most this many keywords are kept
MaxKeywords == 4

FirstN(s, n) == SubSeq(s, 1, IF Len(s) < n THEN Len(s) ELSE n)

extract_keywords(text) ==
    LET IsKeyword(w) == w \notin stop_words /\ TextLen(w) > MinKeywordLen
    IN  FirstN(SelectSeq(Split(text), IsKeyword), MaxKeywords)

\* a similarity is the fraction n/d
Frac(n, d) == [n |-> n, d |-> d]

SimOne == Frac(1, 1)

FracGE(a, b) == a.n * b.d >= b.n * a.d

FracGT(a, b) == a.n * b.d > b.n * a.d

\* similarity >= threshold, the threshold in hundredths
AtLeastPct(f, pct) == f.n * 100 >= pct * f.d

\* ORDER BY is_golden DESC, score DESC (rows of equal rank in rowid order)
GoldenScoreBefore(r1, r2) ==
    \/ r1.is_golden /\ ~r2.is_golden
    \/ r1.is_golden = r2.is_golden /\ r1.score > r2.score

\* key=lambda x: x[2], reverse=True
SimBefore(x, y) == FracGT(x.sim, y.sim)

\* the order of characters: punctuation, then the alphabet
AtomRank(a) ==
    CASE a = "," -> 1 [] a = "." -> 2
      [] a = "Kak" -> 3 [] a = "Chtoby" -> 4
      [] a = "akkaunt" -> 10 [] a = "by" -> 11 [] a = "voyti" -> 12
      [] a = "vosstanovit" -> 13 [] a = "vostanovit" -> 14 [] a = "dostup" -> 15
      [] a = "kak" -> 16 [] a = "mne" -> 17 [] a = "mozhno" -> 18
      [] a = "nuzhno" -> 19 [] a = "polzavatel" -> 20 [] a = "polzovatel" -> 21
      [] a = "hochu" -> 22 [] a = "chotby" -> 23 [] a = "chtlby" -> 24
      [] a = "chto" -> 25 [] a = "chtoby" -> 26 [] a = "ya" -> 27
      [] OTHER -> 30

RECURSIVE WordLess(_, _)
WordLess(w1, w2) ==
    IF w1 = <<>> THEN w2 # <<>>
    ELSE IF w2 = <<>> THEN FALSE
    ELSE IF AtomRank(Head(w1)) # AtomRank(Head(w2))
         THEN AtomRank(Head(w1)) < AtomRank(Head(w2))
         ELSE WordLess(Tail(w1), Tail(w2))

\* x has to come before y in the order `by`
Before(by, x, y) ==
    CASE by = "golden_score" -> GoldenScoreBefore(x, y)
      [] by = "sim" -> SimBefore(x, y)
      [] by = "word" -> WordLess(x, y)

\* list.sort, sorted and ORDER BY: stable
RECURSIVE InsertSorted(_, _, _)
InsertSorted(sorted, x, by) ==
    IF sorted = <<>> THEN <<x>>
    ELSE IF Before(by, x, Head(sorted))
         THEN <<x>> \o sorted
         ELSE <<Head(sorted)>> \o InsertSorted(Tail(sorted), x, by)

RECURSIVE StableSort(_, _)
StableSort(s, by) ==
    IF s = <<>> THEN <<>>
    ELSE InsertSorted(StableSort(SubSeq(s, 1, Len(s) - 1), by), s[Len(s)], by)

OrderByGoldenScore(rows) == StableSort(rows, "golden_score")

SortBySimDesc(results) == StableSort(results, "sim")

\* the length of the longest common subsequence, in characters
\* one row of the table: cur[k + 1] is the value for the first k characters of b
RECURSIVE LcsRow(_, _, _, _)
LcsRow(prev, x, b, cur) ==
    IF Len(cur) > Len(b) THEN cur
    ELSE LcsRow(prev, x, b,
                Append(cur, IF x = b[Len(cur)] THEN prev[Len(cur)] + CharLen(x)
                            ELSE IF prev[Len(cur) + 1] >= cur[Len(cur)]
                                 THEN prev[Len(cur) + 1] ELSE cur[Len(cur)]))

RECURSIVE LcsRows(_, _, _)
LcsRows(a, b, prev) ==
    IF a = <<>> THEN prev[Len(b) + 1]
    ELSE LcsRows(Tail(a), b, LcsRow(prev, Head(a), b, <<0>>))

Lcs(a, b) == LcsRows(a, b, [j \in 1..(Len(b) + 1) |-> 0])

\* rapidfuzz fuzz.token_sort_ratio(a, b) / 100: the words sorted and joined, then
\* the normalized Indel similarity 2 * lcs / (len(a) + len(b))
token_sort_ratio(a, b) ==
    LET sa == JoinWords(StableSort(Split(a), "word"))
        sb == JoinWords(StableSort(Split(b), "word"))
        total == TextLen(sa) + TextLen(sb)
    IN  IF total = 0 THEN SimOne ELSE Frac(2 * Lcs(sa, sb), total)

\* one tuple of a result: (query, answer, ratio, score)
ResultTuple(row, sim) ==
    [story |-> row.query, answer |-> row.answer, sim |-> sim, score |-> row.score]

\* tier 1, the SELECT ... WHERE normalized_query = ? ... LIMIT ?
ExactMatches(rows, nq, limit) ==
    LET IsExact(r) == r.normalized_query = nq
    IN  FirstN(OrderByGoldenScore(SelectSeq(rows, IsExact)), limit)

\* ExamplesDB._find_by_keywords returning the rows in the order of its SELECT
find_by_keywords_unsorted(rows, keywords, limit) ==
    IF keywords = <<>> THEN <<>>
    ELSE LET HasPrimary(r) == Contains(r.normalized_query, keywords[1])
             found == FirstN(OrderByGoldenScore(SelectSeq(rows, HasPrimary)), limit * 2)
             Matches(r) ==
                 Cardinality({k \in 1..Len(keywords) :
                                 Contains(r.normalized_query, keywords[k])})
             Keep(r) == Matches(r) * 2 >= Len(keywords)
             kept == SelectSeq(found, Keep)
             filtered == [i \in 1..Len(kept) |->
                             ResultTuple(kept[i], Frac(Matches(kept[i]), Len(keywords)))]
         IN  FirstN(filtered, limit)

\* ExamplesDB._find_by_keywords
find_by_keywords(rows, keywords, limit) ==
    IF keywords = <<>> THEN <<>>
    ELSE LET HasPrimary(r) == Contains(r.normalized_query, keywords[1])
             found == FirstN(OrderByGoldenScore(SelectSeq(rows, HasPrimary)), limit * 2)
             Matches(r) ==
                 Cardinality({k \in 1..Len(keywords) :
                                 Contains(r.normalized_query, keywords[k])})
             Keep(r) == Matches(r) * 2 >= Len(keywords)
             kept == SelectSeq(found, Keep)
             filtered == [i \in 1..Len(kept) |->
                             ResultTuple(kept[i], Frac(Matches(kept[i]), Len(keywords)))]
         IN  FirstN(SortBySimDesc(filtered), limit)

\* the LIMIT of the candidate query of tier 3
CandidateLimit == 100

\* tier 3: the ratio against every golden or well scored row
ratio_tier(rows, nq, threshold, limit) ==
    LET IsCandidate(r) == r.is_golden \/ r.score >= 4
        candidates ==
            FirstN(OrderByGoldenScore(SelectSeq(rows, IsCandidate)), CandidateLimit)
        Qualifies(r) == AtLeastPct(token_sort_ratio(nq, r.normalized_query), threshold)
        kept == SelectSeq(candidates, Qualifies)
        similar == [i \in 1..Len(kept) |->
                       ResultTuple(kept[i], token_sort_ratio(nq, kept[i].normalized_query))]
    IN  FirstN(SortBySimDesc(similar), limit)

\* the tier that answers find_similar on a cache miss, and its result
find_similar_tier(rows, query, threshold, limit) ==
    LET nq == normalize_query(query)
        keywords == extract_keywords(nq)
    IN  IF ExactMatches(rows, nq, limit) # <<>> THEN "exact"
        ELSE IF find_by_keywords(rows, keywords, limit) # <<>> THEN "keyword"
        ELSE "ratio"

find_similar_compute(rows, query, threshold, limit) ==
    LET nq == normalize_query(query)
        exact == ExactMatches(rows, nq, limit)
        by_kw == find_by_keywords(rows, extract_keywords(nq), limit)
    IN  IF exact # <<>>
        THEN [i \in 1..Len(exact) |-> ResultTuple(exact[i], SimOne)]
        ELSE IF by_kw # <<>> THEN by_kw
        ELSE ratio_tier(rows, nq, threshold, limit)

\* the key of ExamplesDB._cache
SimilarKey(query, threshold, limit) == <<query, threshold, limit>>

\* ExamplesDB.find_similar: the cached result when there is one
find_similar(rows, cache, query, threshold, limit) ==
    LET key == SimilarKey(query, threshold, limit)
    IN  IF key \in DOMAIN cache THEN cache[key]
        ELSE find_similar_compute(rows, query, threshold, limit)

\* ExamplesDB._cache after find_similar
find_similar_cache(rows, cache, query, threshold, limit) ==
    LET key == SimilarKey(query, threshold, limit)
    IN  IF key \in DOMAIN cache THEN cache
        ELSE [k \in DOMAIN cache \cup {key} |->
                 IF k = key THEN find_similar_compute(rows, query, threshold, limit)
                 ELSE cache[k]]

\* the row INSERTed by add_example
NewRow(rows, query, normalized_query, answer, is_golden, score) ==
    [id |-> Len(rows) + 1, query |-> query, normalized_query |-> normalized_query,
     answer |-> answer, is_golden |-> is_golden, score |-> score, usage_count |-> 0]

\* ExamplesDB.add_example: the table after the INSERT
add_example(rows, query, normalized_query, answer, is_golden, score) ==
    Append(rows, NewRow(rows, query, normalized_query, answer, is_golden, score))

EmptyCache == [k \in {} |-> <<>>]

\* the thresholds _analyze_user_story searches with, in hundredths
ThresholdHigh == 95

ThresholdMedium == 75

ThresholdLow == 60

\* find_similar's default limit
DefaultLimit == 5

\* ------------------------------------------------------- Python dictionaries

\* a dict whose values the model reads by key: a function on the keys present
EmptyDict == [k \in {} |-> <<>>]

Has(d, k) == k \in DOMAIN d

Put(d, k, v) == [x \in DOMAIN d \cup {k} |-> IF x = k THEN v ELSE d[x]]

Restrict(d, keys) == [x \in DOMAIN d \cap keys |-> d[x]]

\* a dict whose insertion order matters: the sequence of its items, oldest first
KeyIndexes(items, key) == {i \in 1..Len(items) : items[i].key = key}

HasKey(items, key) == KeyIndexes(items, key) # {}

ValueOf(items, key) == items[CHOOSE i \in KeyIndexes(items, key) : TRUE].value

\* d[key] = value: a key already present keeps its place
SetItem(items, key, value) ==
    IF HasKey(items, key)
    THEN [i \in 1..Len(items) |->
             IF items[i].key = key THEN [key |-> key, value |-> value] ELSE items[i]]
    ELSE Append(items, [key |-> key, value |-> value])

\* del d[key]
DelItem(items, key) ==
    LET Other(item) == item.key # key
    IN  SelectSeq(items, Other)

Keys(items) == {items[i].key : i \in 1..Len(items)}

\* ------------------------------------------------------- the judge client

\* the seconds a cached response is served, and the seconds the circuit stays open
response_ttl == 300

circuit_timeout == 300

\* the failures after which the circuit opens
consecutive_failures == 5

\* the entries the response cache holds (the source's 100, scaled down)
max_response_cache == 2

\* the judge's answer to an analysis prompt states a score; its answer to a fix or
\* improve prompt is a story.  An analysis text is kept as what it is (a judgment,
\* one of the two placeholders of the improvement chain) and the score it states.
Judgment(score) == [text |-> "judgment", score |-> score, headers |-> <<>>]

ImprovedPending ==
    [text |-> "improved version - needs analysis", score |-> -1, headers |-> <<>>]

InitialPending ==
    [text |-> "initial version - needs analysis", score |-> -1, headers |-> <<>>]

NoAnalysis == [text |-> "<none>", score |-> -1, headers |-> <<>>]

\* build_invest_prompt, build_fix_prompt, build_improve_prompt: the content that
\* _get_cache_key hashes (the hash is taken to be injective)
build_invest_prompt(user_story) ==
    [ask |-> "invest", story |-> user_story, analysis |-> NoAnalysis]

build_fix_prompt(user_story) ==
    [ask |-> "fix", story |-> user_story, analysis |-> NoAnalysis]

build_improve_prompt(user_story, current_analysis) ==
    [ask |-> "improve", story |-> user_story, analysis |-> current_analysis]

\* GigaChatClient.__init__
NewClient ==
    [response_cache |-> <<>>, error_count |-> 0,
     circuit_open |-> FALSE, circuit_open_until |-> 0]

\* what the service answers when a request reaches it
ServerError == [ok |-> FALSE, status |-> 500, score |-> -1, story |-> NoText]

Answer(score, story) == [ok |-> TRUE, status |-> 200, score |-> score, story |-> story]

\* the request does not reach the service: httpx.RequestError, no status
RequestError == [ok |-> FALSE, status |-> 0, score |-> -1, story |-> NoText]

\* the attempts of the retry decorator of get_token and get_chat_completion
stop_after_attempt == 3

\* _handle_circuit_breaker_failure at time `time`
handle_circuit_breaker_failure(cl, time) ==
    IF cl.error_count >= consecutive_failures
    THEN [cl EXCEPT !.circuit_open = TRUE, !.circuit_open_until = time + circuit_timeout]
    ELSE cl

\* the content of the answer to a prompt
AnswerTo(prompt, net) ==
    IF prompt.ask = "invest" THEN Judgment(net.score) ELSE net.story

\* the key of the entry with the smallest timestamp (the first of them in the
\* dict's order): min(keys, key=timestamp)
OldestKey(items) ==
    LET i == CHOOSE i \in 1..Len(items) :
                 /\ \A j \in 1..Len(items) :
                        items[i].value.timestamp <= items[j].value.timestamp
                 /\ \A j \in 1..(i - 1) :
                        items[j].value.timestamp > items[i].value.timestamp
    IN  items[i].key

\* the response cache after a successful request
cache_response(items, cache_key, answer, time) ==
    LET put == SetItem(items, cache_key, [response |-> answer, timestamp |-> time])
    IN  IF Len(put) > max_response_cache THEN DelItem(put, OldestKey(put)) ELSE put

Max(a, b) == IF a >= b THEN a ELSE b

\* one attempt of GigaChatClient.get_chat_completion(messages) at time `time`, the service
\* answering `net` when asked: the client afterwards, whether it returned, the
\* answer, whether the first element returned is the cached pair (answer, messages)
\* instead of the answer, and the requests sent
chat_completion_attempt(cl, messages, net, time) ==
    LET closed == IF cl.circuit_open /\ time >= cl.circuit_open_until
                  THEN [cl EXCEPT !.circuit_open = FALSE] ELSE cl
        cache_key == messages
        fresh == /\ HasKey(cl.response_cache, cache_key)
                 /\ time - ValueOf(cl.response_cache, cache_key).timestamp < response_ttl
    IN  IF cl.circuit_open /\ time < cl.circuit_open_until
        THEN [cl |-> cl, ok |-> FALSE, answer |-> NoAnalysis, nested |-> FALSE, sent |-> 0]
        ELSE IF fresh
        THEN [cl |-> closed, ok |-> TRUE,
              answer |-> ValueOf(cl.response_cache, cache_key).response,
              nested |-> TRUE, sent |-> 0]
        ELSE IF net.ok
        THEN [cl |-> [closed EXCEPT
                         !.response_cache =
                             cache_response(@, cache_key, AnswerTo(messages, net), time),
                         !.error_count = Max(0, @ - 1)],
              ok |-> TRUE, answer |-> AnswerTo(messages, net), nested |-> FALSE,
              sent |-> 1]
        ELSE IF net.status >= 500
        THEN [cl |-> [closed EXCEPT !.error_count = @ + 1],
              ok |-> FALSE, answer |-> NoAnalysis, nested |-> FALSE, sent |-> 1]
        ELSE [cl |-> handle_circuit_breaker_failure(
                         [closed EXCEPT !.error_count = @ + 1], time),
              ok |-> FALSE, answer |-> NoAnalysis, nested |-> FALSE, sent |-> 1]

\* the retry decorator of get_chat_completion: an attempt that ended with an
\* httpx.RequestError is repeated while attempts are left; the raise of an open
\* circuit and the ServerError of a status of 500 or more are not repeated
RECURSIVE chat_completion_retry(_, _, _, _, _)
chat_completion_retry(cl, messages, net, time, attempts) ==
    LET attempt == chat_completion_attempt(cl, messages, net, time)
        again == chat_completion_retry(attempt.cl, messages, net, time, attempts - 1)
    IN  IF attempt.ok \/ attempt.sent = 0 \/ net.status >= 500 \/ attempts <= 1
        THEN attempt
        ELSE [again EXCEPT !.sent = @ + attempt.sent]

\* GigaChatClient.get_chat_completion(messages)
get_chat_completion(cl, messages, net, time) ==
    chat_completion_retry(cl, messages, net, time, stop_after_attempt)

\* one attempt of GigaChatClient.get_token() when no unexpired token is held: the
\* client afterwards, whether a token was returned, and the requests sent
token_attempt(cl, net, time) ==
    LET closed == IF cl.circuit_open /\ time >= cl.circuit_open_until
                  THEN [cl EXCEPT !.circuit_open = FALSE] ELSE cl
    IN  IF cl.circuit_open /\ time < cl.circuit_open_until
        THEN [cl |-> cl, ok |-> FALSE, sent |-> 0]
        ELSE IF net.ok
        THEN [cl |-> closed, ok |-> TRUE, sent |-> 1]
        ELSE [cl |-> handle_circuit_breaker_failure(
                         [closed EXCEPT !.error_count = @ + 1], time),
              ok |-> FALSE, sent |-> 1]

\* the retry decorator of get_token: a status of 500 or more (an
\* httpx.HTTPStatusError here) and an httpx.RequestError are both repeated
RECURSIVE token_retry(_, _, _, _)
token_retry(cl, net, time, attempts) ==
    LET attempt == token_attempt(cl, net, time)
        again == token_retry(attempt.cl, net, time, attempts - 1)
    IN  IF attempt.ok \/ attempt.sent = 0 \/ attempts <= 1
        THEN attempt
        ELSE [again EXCEPT !.sent = @ + attempt.sent]

\* GigaChatClient.get_token()
get_token(cl, net, time) == token_retry(cl, net, time, stop_after_attempt)

\* ------------------------------------------------------- the conversation

\* BotState
MAIN_MENU == "main_menu"

ANALYZING == "analyzing"

SHOWING_RESULTS == "showing_results"

SHOWING_SIMILAR == "showing_similar"

IMPROVING == "improving"

EXPORT_MENU == "export_menu"

HELP == "help"

STATS == "stats"

SHOWING_HISTORY == "showing_history"

SHOWING_DATABASE == "showing_database"

\* the longest story the handlers accept, in characters
MaxStoryChars == 2000

\* the index of the first lexeme at or after p that is not whitespace
RECURSIVE SkipSpaces(_, _)
SkipSpaces(t, p) == IF p <= Len(t) /\ IsSpace(t[p]) THEN SkipSpaces(t, p + 1) ELSE p

\* the words w1 \s+ w2 ... read from lexeme p on: the index after the last word,
\* or 0 when they are not there
RECURSIVE WordsAt(_, _, _)
WordsAt(t, p, words) ==
    IF p > Len(t) \/ t[p] # Head(words) THEN 0
    ELSE IF Len(words) = 1 THEN p + 1
    ELSE IF p + 1 <= Len(t) /\ IsSpace(t[p + 1])
         THEN WordsAt(t, SkipSpaces(t, p + 1), Tail(words))
         ELSE 0

\* re.match(r"^kak\s+.+?,\s*<want>\s+.+?,\s*<goal>\s+.+?$", t)
MatchesPattern(t, want, goal) ==
    /\ Len(t) >= 2 /\ t[1] = "kak" /\ IsSpace(t[2])
    /\ \E i, j \in 4..Len(t) :
          /\ i < j /\ t[i] = "," /\ t[j] = ","
          /\ LET w == WordsAt(t, SkipSpaces(t, i + 1), want)
                 g == WordsAt(t, SkipSpaces(t, j + 1), goal)
             IN  /\ w # 0 /\ w < j - 1 /\ IsSpace(t[w])
                 /\ g # 0 /\ g < Len(t) /\ IsSpace(t[g])

\* the four patterns of _is_valid_user_story
patterns ==
    << <<<<"ya", "hochu">>, <<"chtoby">>>>,
       <<<<"ya", "hochu">>, <<"chto", "by">>>>,
       <<<<"mne", "nuzhno">>, <<"chtoby">>>>,
       <<<<"ya", "mogu">>, <<"chtoby">>>> >>

\* `sub in text` for a sub made of whole lexemes
HasSub(text, sub) ==
    \E i \in 1..Len(text) : IsPrefix(sub, SubSeq(text, i, Len(text)))

\* _is_valid_user_story (its memo of earlier answers returns what is computed here)
is_valid_user_story(text) ==
    LET text_lower == Strip(Lower(text))
        has_keywords ==
            \/ \A kw \in {"kak", "hochu", "chtoby"} : HasSub(text_lower, <<kw>>)
            \/ /\ HasSub(text_lower, <<"kak">>) /\ HasSub(text_lower, <<"hochu">>)
               /\ HasSub(text_lower, <<"chto", " ", "by">>)
    IN  /\ TextLen(text) <= MaxStoryChars
        /\ \/ \E p \in 1..Len(patterns) :
                 MatchesPattern(text_lower, patterns[p][1], patterns[p][2])
           \/ has_keywords /\ TextLen(text_lower) > 20

\* InvestBot._is_valid_user_story: re.search of
\* kak\s+[^,]+\s*,\s*ya\s+(hochu|mogu|nuzhno)\s+[^,]+\s*,\s*chtoby\s+.+
\* in the lower-cased, stripped text, more than 25 characters, one of the verbs
bot_is_valid_user_story(text) ==
    LET text_lower == Strip(Lower(text))
        NoComma(a, b) == \A m \in a..b : text_lower[m] # ","
        Goal(j) ==
            LET g == WordsAt(text_lower, SkipSpaces(text_lower, j + 1), <<"chtoby">>)
            IN  g # 0 /\ g < Len(text_lower) /\ IsSpace(text_lower[g])
        Want(i, j) ==
            \E verb \in {"hochu", "mogu", "nuzhno"} :
                LET w == WordsAt(text_lower, SkipSpaces(text_lower, i + 1),
                                 <<"ya", verb>>)
                IN  /\ w # 0 /\ w + 2 <= j /\ IsSpace(text_lower[w])
                    /\ NoComma(w, j - 1)
        has_structure ==
            \E k \in 1..Len(text_lower) :
                /\ text_lower[k] = "kak" /\ k + 3 <= Len(text_lower)
                /\ IsSpace(text_lower[k + 1])
                /\ \E i \in (k + 3)..Len(text_lower) :
                      /\ text_lower[i] = "," /\ NoComma(k + 1, i - 1)
                      /\ \E j \in (i + 1)..Len(text_lower) :
                            text_lower[j] = "," /\ Want(i, j) /\ Goal(j)
        has_min_length == TextLen(text_lower) > 25
        has_meaning ==
            \E word \in {"hochu", "mogu", "nuzhno"} : HasSub(text_lower, <<word>>)
    IN  has_min_length /\ has_meaning /\ has_structure

\* the second test of _check_and_improve_story: no comma, or no "hochu", or no
\* "chtoby" in the story
too_general(fixed_story) ==
    \/ ~HasSub(fixed_story, <<",">>)
    \/ ~HasSub(Lower(fixed_story), <<"hochu">>)
    \/ ~HasSub(Lower(fixed_story), <<"chtoby">>)

\* handle_message's test of a text that is not valid
has_structure(text) ==
    \E sub \in {<<"kak">>, <<"hochu">>, <<"chtoby">>, <<"chto", " ", "by">>,
                <<"mne", " ", "nuzhno">>} : HasSub(Lower(text), sub)

\* the key handle_message looks up and the key _cache_analysis stores under: the
\* hash (taken to be injective) of the lower-cased, stripped text
lookup_key(text) == Strip(Lower(text))

\* a key that also drops the punctuation
cache_key_normalized(story) == normalize_text(story)

cache_key(story) == Strip(Lower(story))

\* the entries the analysis cache holds (the source's 100, scaled down)
max_cache_size == 2

\* _cache_analysis without its size limit
cache_analysis_unbounded(cache, story, analysis_data) ==
    SetItem(cache, cache_key(story), analysis_data)

\* _cache_analysis: the analysis cache afterwards
cache_analysis(cache, story, analysis_data) ==
    LET put == SetItem(cache, cache_key(story), analysis_data)
    IN  IF Len(put) > max_cache_size THEN DelItem(put, put[1].key) ELSE put

\* format_analysis_for_display: clean_markdown escapes the Markdown characters of
\* the analysis once more, and the result goes under a header that quotes the story
\* when one is given. `headers` lists the passes made, the latest first: the story
\* quoted, or the empty text for a pass without a header
format_analysis_for_display(analysis, user_story) ==
    [analysis EXCEPT !.headers = <<user_story>> \o @]

\* extract_score_from_analysis: the digit in front of "/6" in the text, which is the
\* last digit of the number the judgment states, or -1 when it states none
extract_score_from_analysis(analysis) ==
    IF analysis.score < 0 THEN -1 ELSE analysis.score % 10

\* str((answer, messages)): the text made of a cached response
StrOfTuple(answer) == [answer EXCEPT !.text = "str of (answer, messages)"]

\* ImprovementChain.add_version numbering the versions from 0
add_version_from_zero(versions, story, analysis, timestamp) ==
    Append(versions, [story |-> story, analysis |-> analysis,
                      version |-> Len(versions), timestamp |-> timestamp])

\* ImprovementChain.add_version
add_version(versions, story, analysis, timestamp) ==
    Append(versions, [story |-> story, analysis |-> analysis,
                      version |-> Len(versions) + 1, timestamp |-> timestamp])

\* the entries a user's history holds (the source's 50, scaled down)
max_history_depth == 2

\* SimpleBot.add_to_user_history: the user's history afterwards
add_to_user_history(history, story, analysis) ==
    LET put == Append(history, [story |-> story, analysis |-> analysis])
    IN  IF Len(put) > max_history_depth
        THEN SubSeq(put, Len(put) - max_history_depth + 1, Len(put)) ELSE put

\* the one user of the conversations
ConversationUser == 1

\* a user's history (none before the first entry)
HistoryOf(history, user_id) ==
    IF user_id \in DOMAIN history THEN history[user_id] ELSE <<>>

\* SimpleBot.add_to_user_history counting every entry as a session
bot_add_counting_entries(history, sessions, user_id, story, analysis) ==
    [user_history |->
         [u \in DOMAIN history \cup {user_id} |->
             IF u = user_id
             THEN add_to_user_history(HistoryOf(history, user_id), story, analysis)
             ELSE history[u]],
     user_sessions |-> sessions + 1]

\* SimpleBot.add_to_user_history: user_history and stats['user_sessions'] afterwards
bot_add_to_user_history(history, sessions, user_id, story, analysis) ==
    [user_history |->
         [u \in DOMAIN history \cup {user_id} |->
             IF u = user_id
             THEN add_to_user_history(HistoryOf(history, user_id), story, analysis)
             ELSE history[u]],
     user_sessions |-> IF user_id \in DOMAIN history THEN sessions ELSE sessions + 1]

\* ExamplesDB.increment_usage_count comparing the raw query with the normalized text
increment_usage_count_by_query(rows, normalized_query) ==
    [i \in 1..Len(rows) |->
        IF rows[i].query = normalized_query
        THEN [rows[i] EXCEPT !.usage_count = @ + 1] ELSE rows[i]]

\* ExamplesDB.increment_usage_count
increment_usage_count(rows, normalized_query) ==
    [i \in 1..Len(rows) |->
        IF rows[i].normalized_query = normalized_query
        THEN [rows[i] EXCEPT !.usage_count = @ + 1] ELSE rows[i]]

\* what a handler works on and what it is seen to do: the session (user_data), the
\* shared analysis cache, the store, the client and the user's history; then the
\* outcome of the handler, the get_chat_completion and find_similar calls it made,
\* whether it evicted from the analysis cache, and the texts whose judgment is cached;
\* which of the three searches matched and the similarity of the story reused, the
\* index a "use_similar_<index>" or the page a "db_page_<page>" carried, whether the store accepts a write
\* ("ok") or raises aiosqlite.Error ("fail"), and whether it can be reached at all
\* ("ok") or every access of the handler raises ("fail"); the histories of the
\* users (hist) go with the count of the users that have one (sessions)
Work(ud, ac, rows, dbc, cl, hist, jd) ==
    [ud |-> ud, ac |-> ac, rows |-> rows, dbc |-> dbc, cl |-> cl, hist |-> hist,
     jd |-> jd, out |-> "none", judge_calls |-> 0, find_calls |-> 0, evicted |-> FALSE,
     matched |-> "n/a", sim |-> Frac(0, 1), index |-> 0, dbw |-> "ok", dbr |-> "ok",
     sessions |-> 0]

Truthy(ud, k) == Has(ud, k) /\ ud[k] # <<>>

\* the handler ends with this outcome; when the transport fails, with an error
Reply(s, tr, outcome) == [s EXCEPT !.out = IF tr = "ok" THEN outcome ELSE "error"]

AnalysisData(story, analysis, time) ==
    [story |-> story, analysis |-> analysis, timestamp |-> time]

\* _add_to_user_history, _cache_analysis and user_data['last_analysis'] = ..., the
\* three steps that record a shown analysis
record_analysis(s, story, analysis, time, judged_now) ==
    LET data == AnalysisData(story, analysis, time)
        cache == cache_analysis(s.ac, story, data)
        known == IF judged_now THEN s.jd \cup {story} ELSE s.jd
        bot == bot_add_to_user_history(s.hist, s.sessions, ConversationUser, story,
                                       analysis)
    IN  [s EXCEPT !.hist = bot.user_history,
                  !.sessions = bot.user_sessions,
                  !.ac = cache,
                  !.evicted = Keys(cache) # Keys(s.ac) \cup {cache_key(story)},
                  !.jd = {t \in known : cache_key(t) \in Keys(cache)},
                  !.ud = Put(@, "last_analysis", data)]

\* the three searches of _analyze_user_story, each after the other: their results
\* and the store's cache afterwards
search_low(rows, query, high, medium, cache) ==
    [high |-> high, medium |-> medium,
     low |-> find_similar(rows, cache, query, ThresholdLow, DefaultLimit),
     dbc |-> find_similar_cache(rows, cache, query, ThresholdLow, DefaultLimit)]

search_medium(rows, query, high, cache) ==
    search_low(rows, query, high,
               find_similar(rows, cache, query, ThresholdMedium, DefaultLimit),
               find_similar_cache(rows, cache, query, ThresholdMedium, DefaultLimit))

search_similar(rows, cache, query) ==
    search_medium(rows, query,
                  find_similar(rows, cache, query, ThresholdHigh, DefaultLimit),
                  find_similar_cache(rows, cache, query, ThresholdHigh, DefaultLimit))

\* the three searches reading the store whether or not it can be reached
search_store_reading(s, query) == search_similar(s.rows, s.dbc, query)

\* the three searches of a handler: when the store cannot be reached, find_similar
\* answers from its cache or, past the cache, catches the exception and returns
\* nothing, and caches nothing
search_store(s, query) ==
    IF s.dbr = "ok" THEN search_similar(s.rows, s.dbc, query)
    ELSE [search_similar(<<>>, s.dbc, query) EXCEPT !.dbc = s.dbc]

\* _analyze_user_story, a stored story being close enough: its analysis is reused
analyze_reuse(s, best, tr, time) ==
    IF tr # "ok" THEN [s EXCEPT !.out = "error"]
    ELSE [record_analysis(s, best.story,
                          format_analysis_for_display(best.answer, <<>>),
                          time, FALSE)
             EXCEPT !.out = "reused"]

\* _analyze_user_story, stored stories being similar: they are offered
analyze_offer(s, user_story, top_similar, tr) ==
    IF tr # "ok" THEN [s EXCEPT !.out = "error"]
    ELSE [s EXCEPT !.ud = Put(Put(@, "similar_stories", top_similar),
                              "original", user_story),
                   !.out = "candidates"]

\* _analyze_user_story, the judge having answered: the analysis is shown, recorded
\* and, for an improved story that scores 4 or more, stored as golden; when the
\* store raises, the message that showed the analysis is edited into an error
analyze_shown(s, user_story, analysis, is_improved, time) ==
    IF is_improved /\ extract_score_from_analysis(analysis) >= 4 /\ s.dbw # "ok"
    THEN [record_analysis(s, user_story, analysis, time, TRUE) EXCEPT !.out = "save failed"]
    ELSE IF is_improved /\ extract_score_from_analysis(analysis) >= 4
    THEN [record_analysis(s, user_story, analysis, time, TRUE)
             EXCEPT !.rows = add_example(@, user_story, normalize_text(user_story),
                                         analysis, TRUE,
                                         extract_score_from_analysis(analysis)),
                    !.dbc = EmptyCache,
                    !.out = "judged"]
    ELSE [record_analysis(s, user_story, analysis, time, TRUE) EXCEPT !.out = "judged"]

analyze_answered(s, user_story, reply, is_improved, time) ==
    IF ~reply.ok
    THEN [s EXCEPT !.cl = reply.cl, !.judge_calls = 1, !.out = "judge failed"]
    ELSE analyze_shown([s EXCEPT !.cl = reply.cl, !.judge_calls = 1], user_story,
                       format_analysis_for_display(
                           IF reply.nested THEN StrOfTuple(reply.answer)
                           ELSE reply.answer, user_story),
                       is_improved, time)

\* _analyze_user_story, nothing stored being used: the judge is asked
analyze_judge(s, user_story, is_improved, net, tr, time) ==
    IF tr # "ok" THEN [s EXCEPT !.out = "error"]
    ELSE analyze_answered(s, user_story,
                          get_chat_completion(s.cl, build_invest_prompt(user_story),
                                              net, time),
                          is_improved, time)

\* _analyze_user_story after its searches
analyze_found(s, found, user_story, is_improved, net, tr, time) ==
    IF found.high # <<>> /\ ~is_improved /\ s.dbr # "ok"
    THEN [s EXCEPT !.matched = "high", !.out = "error"]
    ELSE IF found.high # <<>> /\ ~is_improved
    THEN analyze_reuse([s EXCEPT !.rows = increment_usage_count(
                                              @, normalize_text(found.high[1].story)),
                                 !.matched = "high", !.sim = found.high[1].sim],
                       found.high[1], tr, time)
    ELSE IF found.medium # <<>> /\ ~is_improved
    THEN analyze_offer([s EXCEPT !.matched = "medium"], user_story,
                       FirstN(found.medium, 3), tr)
    ELSE IF found.low # <<>> /\ ~is_improved
    THEN analyze_offer([s EXCEPT !.matched = "low"], user_story, FirstN(found.low, 2), tr)
    ELSE analyze_judge([s EXCEPT !.matched =
                                     IF found.high = <<>> /\ found.medium = <<>>
                                        /\ found.low = <<>>
                                     THEN "none" ELSE "ignored"],
                       user_story, is_improved, net, tr, time)

analyze_searched(s, found, user_story, is_improved, net, tr, time) ==
    analyze_found([s EXCEPT !.dbc = found.dbc, !.find_calls = 3], found, user_story,
                  is_improved, net, tr, time)

\* _analyze_user_story
analyze_user_story(s, user_story, is_improved, skip_similar_search, net, tr, time) ==
    IF TextLen(user_story) > MaxStoryChars THEN Reply(s, tr, "too long")
    ELSE IF skip_similar_search
    THEN analyze_judge(s, user_story, is_improved, net, tr, time)
    ELSE analyze_searched(s, search_store(s, user_story), user_story,
                          is_improved, net, tr, time)

\* handle_message analysing every text, whatever it looks like
handle_text_analysing(s, text, net, tr, time) ==
    IF HasKey(s.ac, lookup_key(text))
    THEN Reply([s EXCEPT !.ud = Put(@, "last_analysis", ValueOf(s.ac, lookup_key(text)))],
               tr, "cached")
    ELSE analyze_user_story(s, text, FALSE, FALSE, net, tr, time)

\* handle_message, the text stripped and kept as initial_story
handle_text(s, text, net, tr, time) ==
    IF HasKey(s.ac, lookup_key(text))
    THEN Reply([s EXCEPT !.ud = Put(@, "last_analysis", ValueOf(s.ac, lookup_key(text)))],
               tr, "cached")
    ELSE IF is_valid_user_story(text) \/ (has_structure(text) /\ TextLen(text) > 15 /\ tr = "ok")
    THEN analyze_user_story(s, text, FALSE, FALSE, net, tr, time)
    ELSE IF has_structure(text) /\ TextLen(text) > 15
    THEN [s EXCEPT !.out = "error"]
    ELSE Reply(s, tr, "rejected")

\* handle_message
handle_message(s, message_text, net, tr, time) ==
    handle_text([s EXCEPT !.ud = Put(@, "initial_story", Strip(message_text))],
                Strip(message_text), net, tr, time)

\* user_data['current_state'] = state
SetState(s, state) == [s EXCEPT !.ud = Put(@, "current_state", state)]

\* callback "analyze_invest"
analyze_invest(s, tr) == Reply(SetState(s, ANALYZING), tr, "prompted")

\* callback "use_similar_<index>", the index within the list
use_chosen(s, chosen, tr, time) ==
    IF tr # "ok" THEN [s EXCEPT !.out = "error"]
    ELSE [record_analysis(s, chosen.story,
                          format_analysis_for_display(chosen.answer, <<>>), time, FALSE)
             EXCEPT !.out = "reused"]

\* the stories offered to the user
similar_stories(ud) == IF Has(ud, "similar_stories") THEN ud["similar_stories"] ELSE <<>>

\* similar[index] as Python reads it: a negative index counts from the end; 0 when
\* it raises IndexError, otherwise the position in the sequence
list_index(similar, index) ==
    IF index >= 0 THEN (IF index < Len(similar) THEN index + 1 ELSE 0)
    ELSE IF Len(similar) + index >= 0 THEN Len(similar) + index + 1 ELSE 0

\* callback "use_similar_<index>", index = int(data.split('_')[-1])
use_similar(s, index, tr, time) ==
    LET similar == similar_stories(s.ud)
        begun == [SetState(s, SHOWING_RESULTS) EXCEPT !.index = index]
    IN  IF index < Len(similar)
        THEN IF list_index(similar, index) = 0
             THEN [begun EXCEPT !.out = "error"]
             ELSE use_chosen([begun EXCEPT
                                 !.rows = increment_usage_count(
                                              @, normalize_text(
                                                     similar[list_index(similar, index)].story))],
                             similar[list_index(similar, index)], tr, time)
        ELSE Reply(begun, tr, "refused")

\* the handler has called get_chat_completion
Asked(s, reply) == [s EXCEPT !.cl = reply.cl, !.judge_calls = 1]

\* callback "fix_with_llm", the judge asked
fix_answered(s, reply, tr) ==
    IF ~reply.ok THEN [Asked(s, reply) EXCEPT !.out = "judge failed"]
    ELSE IF reply.nested \/ tr # "ok" THEN [Asked(s, reply) EXCEPT !.out = "error"]
    ELSE [Asked(s, reply) EXCEPT
             !.ud = Put(Put(@, "llm_fix", Strip(reply.answer)),
                        "pending_text", Strip(reply.answer)),
             !.out = "improved"]

\* callback "fix_with_llm"
fix_with_llm(s, net, tr, time) ==
    IF ~Truthy(s.ud, "original") THEN Reply(SetState(s, IMPROVING), tr, "refused")
    ELSE fix_answered(SetState(s, IMPROVING),
                      get_chat_completion(s.cl, build_fix_prompt(s.ud["original"]),
                                          net, time),
                      tr)

\* callback "use_own"
use_own(s, net, tr, time) ==
    LET begun == SetState(s, ANALYZING)
    IN  IF ~Truthy(s.ud, "original")
        THEN Reply(begun, tr, "refused")
        ELSE analyze_user_story(begun, s.ud["original"], FALSE, TRUE, net, tr, time)

\* `a or b or c` over the session's texts: the first that is there and not empty
FirstTruthy(ud, keys) ==
    IF \E i \in 1..Len(keys) : Truthy(ud, keys[i])
    THEN ud[keys[CHOOSE i \in 1..Len(keys) :
                    Truthy(ud, keys[i]) /\ \A j \in 1..(i - 1) : ~Truthy(ud, keys[j])]]
    ELSE <<>>

\* the chain improve_story creates when the session has none
new_chain(ud, time) ==
    IF Has(ud, "last_analysis")
    THEN add_version(<<>>, ud["last_analysis"].story, ud["last_analysis"].analysis,
                     ud["last_analysis"].timestamp)
    ELSE IF Truthy(ud, "initial_story")
    THEN add_version(<<>>, ud["initial_story"], InitialPending, time)
    ELSE <<>>

\* the story improve_story works on
pending_story(ud) ==
    IF FirstTruthy(ud, <<"pending_text", "original">>) # <<>>
    THEN FirstTruthy(ud, <<"pending_text", "original">>)
    ELSE IF Has(ud, "last_analysis") THEN ud["last_analysis"].story
    ELSE <<>>

\* the analysis improve_story tells the judge about
current_analysis(ud) ==
    IF Has(ud, "last_analysis") THEN ud["last_analysis"].analysis ELSE NoAnalysis

\* the session with the version appended to its chain
AddVersion(s, story, time) ==
    [s EXCEPT !.ud = Put(@, "improvement_chain",
                         add_version(@["improvement_chain"], story, ImprovedPending, time))]

\* callback "improve_story", the version added: it is shown and kept
improve_added(s, improved, tr) ==
    IF tr # "ok" THEN [s EXCEPT !.out = "error"]
    ELSE [s EXCEPT !.ud = Put(Put(@, "improved_story", improved), "pending_text", improved),
                   !.out = "improved"]

\* callback "improve_story", the judge asked
improve_answered(s, reply, tr, time) ==
    IF ~reply.ok THEN [Asked(s, reply) EXCEPT !.out = "judge failed"]
    ELSE IF reply.nested THEN [Asked(s, reply) EXCEPT !.out = "error"]
    ELSE improve_added(AddVersion(Asked(s, reply), Strip(reply.answer), time),
                       Strip(reply.answer), tr)

\* callback "improve_story", the story to improve chosen
improve_pending(s, pending, net, tr, time) ==
    IF pending = <<>> THEN Reply(s, tr, "refused")
    ELSE improve_answered(
             IF Has(s.ud, "improvement_chain") THEN s
             ELSE [s EXCEPT !.ud = Put(@, "improvement_chain", new_chain(s.ud, time))],
             get_chat_completion(s.cl,
                                 build_improve_prompt(pending, current_analysis(s.ud)),
                                 net, time),
             tr, time)

\* callback "improve_story"
improve_story(s, net, tr, time) ==
    improve_pending(SetState(s, IMPROVING), pending_story(s.ud), net, tr, time)

\* callback "analyze_improved"
analyze_improved(s, net, tr, time) ==
    LET begun == SetState(s, ANALYZING)
    IN  IF ~Truthy(s.ud, "improved_story")
        THEN Reply(begun, tr, "refused")
        ELSE analyze_user_story(begun, s.ud["improved_story"], TRUE, FALSE, net, tr, time)

\* callback "improve_again", the version added where there is a chain
again_added(s, improved, tr) ==
    IF tr # "ok" THEN [s EXCEPT !.out = "error"]
    ELSE [s EXCEPT !.ud = Put(@, "improved_story", improved), !.out = "improved"]

\* callback "improve_again", the judge asked
again_answered(s, reply, tr, time) ==
    IF ~reply.ok THEN [Asked(s, reply) EXCEPT !.out = "judge failed"]
    ELSE IF reply.nested THEN [Asked(s, reply) EXCEPT !.out = "error"]
    ELSE again_added(IF Has(s.ud, "improvement_chain")
                     THEN AddVersion(Asked(s, reply), Strip(reply.answer), time)
                     ELSE Asked(s, reply),
                     Strip(reply.answer), tr)

\* callback "improve_again", the story to improve chosen
again_current(s, current, net, tr, time) ==
    IF current = <<>> THEN Reply(s, tr, "refused")
    ELSE again_answered([s EXCEPT !.ud = Put(@, "pending_text", current)],
                        get_chat_completion(s.cl, build_improve_prompt(current, NoAnalysis),
                                            net, time),
                        tr, time)

\* callback "improve_again"
improve_again(s, net, tr, time) ==
    again_current(SetState(s, IMPROVING),
                  FirstTruthy(s.ud, <<"improved_story", "pending_text">>), net, tr, time)

\* callback "show_improvement_history"
show_improvement_history(s, tr) ==
    LET begun == SetState(s, SHOWING_HISTORY)
    IN  IF ~Has(s.ud, "improvement_chain") \/ Len(s.ud["improvement_chain"]) < 1
        THEN Reply(begun, tr, "refused")
        ELSE Reply(begun, tr, "history")

\* callbacks "export_txt" and "export_csv"
export_file(s, tr) ==
    LET begun == SetState(s, SHOWING_RESULTS)
    IN  IF ~Has(s.ud, "last_analysis")
        THEN Reply(begun, tr, "refused")
        ELSE Reply(begun, tr, "exported")

\* callback "export_improved"
export_improved(s, tr) ==
    LET begun == SetState(s, IMPROVING)
    IN  IF ~Truthy(s.ud, "improved_story")
        THEN Reply(begun, tr, "refused")
        ELSE Reply(begun, tr, "exported")

\* callback "export"
export(s, tr) == Reply(SetState(s, EXPORT_MENU), tr, "menu")

\* callback "add_to_db"
add_to_db(s, tr) ==
    LET begun == SetState(s, SHOWING_RESULTS)
        last_analysis == s.ud["last_analysis"]
        story_to_add ==
            IF Has(s.ud, "improvement_chain") /\ s.ud["improvement_chain"] # <<>>
            THEN s.ud["improvement_chain"][1].story ELSE last_analysis.story
    IN  IF ~Has(s.ud, "last_analysis")
        THEN Reply(begun, tr, "refused")
        ELSE IF s.dbw # "ok" THEN [begun EXCEPT !.out = "error"]
        ELSE [begun EXCEPT
                 !.rows = add_example(@, story_to_add, normalize_text(story_to_add),
                                      last_analysis.analysis, FALSE, 0),
                 !.dbc = EmptyCache,
                 !.out = IF tr = "ok" THEN "stored" ELSE "error"]

\* show_database(page) rendering the page whatever is displayed
show_database_rendering(s, page, tr) ==
    IF tr # "ok" THEN [s EXCEPT !.out = "error", !.index = page]
    ELSE [s EXCEPT !.ud = Put(Put(@, "current_db_page", page),
                              "current_state", SHOWING_DATABASE),
                   !.out = "database", !.index = page]

\* show_database(page)
show_database(s, page, tr) ==
    LET current_page == IF Has(s.ud, "current_db_page") THEN s.ud["current_db_page"] ELSE -1
    IN  IF current_page = page THEN [s EXCEPT !.out = "same page", !.index = page]
        ELSE IF tr # "ok" THEN [s EXCEPT !.out = "error", !.index = page]
        ELSE [s EXCEPT !.ud = Put(Put(@, "current_db_page", page),
                                  "current_state", SHOWING_DATABASE),
                       !.out = "database", !.index = page]

\* callback "show_database"
show_database_button(s, tr) == show_database(SetState(s, SHOWING_DATABASE), 0, tr)

\* a "back" that shows the last analysis again whenever there is one
back_target_results(ud) == IF Has(ud, "last_analysis") THEN SHOWING_RESULTS ELSE MAIN_MENU

\* where callback "back" leads from the session's state
back_target(ud) ==
    LET previous_state == ud["current_state"]
    IN  IF ~Has(ud, "current_state") THEN MAIN_MENU
        ELSE IF previous_state = SHOWING_SIMILAR
        THEN IF Truthy(ud, "similar_stories") THEN SHOWING_SIMILAR ELSE MAIN_MENU
        ELSE IF previous_state = SHOWING_RESULTS
        THEN IF Has(ud, "last_analysis") THEN SHOWING_RESULTS ELSE MAIN_MENU
        ELSE IF previous_state = IMPROVING
        THEN IF Truthy(ud, "improved_story") THEN IMPROVING ELSE MAIN_MENU
        ELSE IF previous_state = EXPORT_MENU
        THEN IF Has(ud, "last_analysis") THEN SHOWING_RESULTS ELSE MAIN_MENU
        ELSE IF previous_state = SHOWING_HISTORY
        THEN IF Has(ud, "improvement_chain") /\ Len(ud["improvement_chain"]) >= 2
             THEN SHOWING_HISTORY ELSE SHOWING_RESULTS
        ELSE MAIN_MENU

\* callback "back"
back(s, tr) ==
    IF Has(s.ud, "current_state") /\ s.ud["current_state"] = SHOWING_DATABASE
    THEN show_database(s, IF Has(s.ud, "current_db_page") THEN s.ud["current_db_page"]
                          ELSE 0, tr)
    ELSE IF tr # "ok" THEN [s EXCEPT !.out = "error"]
    ELSE [SetState(s, back_target(s.ud)) EXCEPT !.out = "back"]

\* a "restart" that keeps every key of the session
restart_keeping(s, tr) ==
    IF tr # "ok" THEN [s EXCEPT !.out = "error"]
    ELSE [SetState(s, MAIN_MENU) EXCEPT !.out = "menu"]

\* callback "restart"
restart(s, tr) ==
    LET cleared ==
            [s EXCEPT !.ud = Restrict(@, {"initial_story", "user_history", "last_analysis"})]
    IN  IF tr # "ok" THEN [cleared EXCEPT !.out = "error"]
        ELSE [SetState(cleared, MAIN_MENU) EXCEPT !.out = "menu"]

\* callbacks "help" and "stats"
show_page(s, state, tr) == Reply(SetState(s, state), tr, "page")

\* ------------------------------------------------ the normalizer harness

NormAlphabet == {"Kak", "chto", "by", "chtoby", "chtlby", " ", ","}

RECURSIVE TextsUpTo(_, _)
TextsUpTo(alphabet, n) ==
    IF n = 0 THEN {<<>>}
    ELSE LET shorter == TextsUpTo(alphabet, n - 1)
         IN  shorter \cup {Append(t, a) : t \in {s \in shorter : Len(s) = n - 1},
                                          a \in alphabet}

\* no call of _check_and_improve_story was made
NoCheck ==
    [status |-> "idle", original_story |-> NoText, candidates |-> <<>>,
     max_attempts |-> 0, calls |-> 0, asked |-> <<>>, result |-> NoText]

NormStart ==
    /\ nt_in \in TextsUpTo(NormAlphabet, MaxNormLen)
    /\ nt_out = NoText
    /\ nt_out2 = NoText
    /\ nt_phase = 0
    /\ check_call = NoCheck

\* the harness at rest, in the specifications about other components
NormIdle ==
    /\ nt_in = <<>>
    /\ nt_out = NoText
    /\ nt_out2 = NoText
    /\ nt_phase = 0
    /\ check_call = NoCheck

NormalizeOnce ==
    /\ nt_phase = 0
    /\ nt_out' = normalize_text(nt_in)
    /\ nt_phase' = 1
    /\ UNCHANGED <<nt_in, nt_out2, check_call, db_vars, sess_vars>>

NormalizeTwice ==
    /\ nt_phase = 1
    /\ nt_out2' = normalize_text(nt_out)
    /\ nt_phase' = 2
    /\ UNCHANGED <<nt_in, nt_out, check_call, db_vars, sess_vars>>

\* ------------------------------------------------------ the store harness

\* the stories submitted to the store and searched for
StoryLogin == <<"Kak", " ", "polzovatel", ",", " ", "ya", " ", "hochu", " ", "voyti">>

StoryAccess == <<"polzovatel", " ", "dostup">>

StoryAccessLong == <<"polzovatel", " ", "dostup", " ", "voyti">>

StoryEnter == <<"polzovatel", " ", "voyti">>

StoryEnterComma == <<"polzovatel", ",", " ", "voyti">>

\* the stories stored by the harness, and the stories it searches for
DbStories == {StoryAccessLong, StoryEnter, StoryEnterComma}

DbQueries == {StoryAccess, StoryEnter, StoryEnterComma}

Thresholds == {ThresholdHigh, ThresholdMedium, ThresholdLow}

\* the thresholds the store harness searches with
DbThresholds == {ThresholdHigh, ThresholdMedium}

NoFind == [called |-> FALSE]

NoPending == [active |-> FALSE]

DbInit ==
    /\ db_rows = <<>>
    /\ db_cache = EmptyCache
    /\ fs = NoFind
    /\ in_flight = NoPending

\* the two ways the handlers store an example: add_to_db (not golden, score 0) and
\* the auto-save of an improved story (golden, the score of its analysis)
SaveKinds ==
    {[is_golden |-> FALSE, score |-> 0], [is_golden |-> TRUE, score |-> 5]}

\* add_example(story, normalize_text(story), answer, ...), then self._cache.clear()
DbAddExample ==
    /\ Len(db_rows) < MaxRows
    /\ \E story \in DbStories, kind \in SaveKinds :
          db_rows' = add_example(db_rows, story, normalize_text(story), "answer",
                                 kind.is_golden, kind.score)
    /\ db_cache' = EmptyCache
    /\ UNCHANGED <<fs, in_flight, nt_vars, sess_vars>>

StoredAs(rows, story) ==
    \E i \in 1..Len(rows) :
        rows[i].query = story /\ rows[i].normalized_query = normalize_text(story)

\* find_similar(query, threshold, limit)
FindSimilar(queries, thresholds, limits) ==
    /\ \E query \in queries, threshold \in thresholds, limit \in limits :
          /\ fs' = [called |-> TRUE, query |-> query, threshold |-> threshold,
                    limit |-> limit,
                    stored |-> StoredAs(db_rows, query),
                    cached |-> SimilarKey(query, threshold, limit) \in DOMAIN db_cache,
                    tier |-> find_similar_tier(db_rows, query, threshold, limit),
                    result |-> find_similar(db_rows, db_cache, query, threshold, limit)]
          /\ db_cache' = find_similar_cache(db_rows, db_cache, query, threshold, limit)
    /\ UNCHANGED <<db_rows, in_flight, nt_vars, sess_vars>>

DbFindSimilar ==
    /\ FindSimilar(DbQueries, DbThresholds, {DefaultLimit})

\* ------------------------------------------------ the conversation harness

\* the handler last run: which, what it did, the transport it met, the calls it made
NoOp ==
    [op |-> "none", out |-> "none", tr |-> "ok", judge_calls |-> 0, find_calls |-> 0,
     evicted |-> FALSE, known |-> FALSE, cleared |-> FALSE,
     matched |-> "n/a", sim |-> Frac(0, 1), index |-> 0, dbr |-> "ok"]

SessInit ==
    /\ user_data = EmptyDict
    /\ analysis_cache = <<>>
    /\ client = NewClient
    /\ user_history = <<>>
    /\ user_sessions = 0
    /\ nav_history = <<>>
    /\ last_cleanup = 0
    /\ now = 0
    /\ last = NoOp
    /\ judged = {}
    /\ scenario = [c9 |-> 0, c10 |-> 0]

\* the session has no current_state yet (as at the start) or is in the main menu
InMainMenu(ud) == ~Has(ud, "current_state") \/ ud["current_state"] = MAIN_MENU

Current ==
    [Work(user_data, analysis_cache, db_rows, db_cache, client, user_history, judged)
        EXCEPT !.sessions = user_sessions]

\* how far the two watched action sequences have got:
\*   c9:  1 a message analysed from the main menu with no chain, 2 and 3 the two
\*        "improve_story" (delivered, the judge not failing),
\*        4 "show_improvement_history"
\*   c10: 3 "analyze_invest" pressed in the main menu, 1 a message analysed from
\*        the main menu (or after that button), 2 "back"
Advance(op, out, tr) ==
    LET from_menu == InMainMenu(user_data) \/ scenario.c10 = 3
        no_chain == \/ ~Has(user_data, "improvement_chain")
                    \/ user_data["improvement_chain"] = <<>>
        analysed == op = "message" /\ out \in {"judged", "reused", "cached"}
        answered == op = "message" /\ out \in {"judged", "reused", "cached", "candidates"}
    IN  [c9 |-> IF analysed /\ from_menu /\ no_chain THEN 1
                ELSE IF /\ op = "improve_story" /\ tr = "ok" /\ out # "judge failed"
                        /\ scenario.c9 \in {1, 2}
                THEN scenario.c9 + 1
                ELSE IF op = "show_improvement_history" /\ scenario.c9 = 3 THEN 4
                ELSE 0,
         c10 |-> IF answered /\ from_menu THEN 1
                 ELSE IF op = "back" /\ tr = "ok" /\ scenario.c10 = 1 THEN 2
                 ELSE IF op = "analyze_invest" /\ InMainMenu(user_data) THEN 3
                 ELSE 0]

\* what is kept of the handler last run: all of it for a message and a restart;
\* for the buttons which handler it was, how it ended and the calls it made
Seen(r, op, tr, known, cleared) ==
    IF op \in {"message", "restart"}
    THEN [op |-> op, out |-> r.out, tr |-> tr, judge_calls |-> r.judge_calls,
          find_calls |-> r.find_calls, evicted |-> r.evicted,
          known |-> known, cleared |-> cleared,
          matched |-> r.matched, sim |-> r.sim, index |-> 0, dbr |-> r.dbr]
    ELSE [NoOp EXCEPT !.op = op, !.out = r.out, !.index = r.index,
                      !.judge_calls = r.judge_calls, !.find_calls = r.find_calls,
                      !.matched = r.matched]

\* the handler's effects become the next state, within the bounds
Commit(result, op, tr, known, cleared, counted) ==
    \E r \in {result} :
        /\ counted => steps > 0
        /\ Len(r.rows) <= MaxStored
        /\ \A i \in 1..Len(r.rows) : r.rows[i].usage_count <= MaxUsage
        /\ r.cl.error_count <= MaxErrors
        /\ Has(r.ud, "improvement_chain") => Len(r.ud["improvement_chain"]) <= MaxChain
        /\ user_data' = r.ud
        /\ analysis_cache' = r.ac
        /\ db_rows' = r.rows
        /\ db_cache' = r.dbc
        /\ client' = r.cl
        /\ user_history' = r.hist
        /\ user_sessions' = r.sessions
        /\ judged' = r.jd
        /\ last' = Seen(r, op, tr, known, cleared)
        /\ scenario' = Advance(op, r.out, tr)
        /\ steps' = IF counted THEN steps - 1 ELSE steps
        /\ UNCHANGED <<nt_vars, fs, in_flight, now, nav_history, last_cleanup>>

Transport == {"ok", "fail"}

Delivered == {"ok"}

\* the store answers, or cannot be reached
StoreUp == {"ok"}

StoreReads == {"ok", "fail"}

\* a text message arrives
HandleMessage(texts, nets, trs, reads, counted) ==
    \E text \in texts, net \in nets, tr \in trs, dbr \in reads :
        Commit(handle_message([Current EXCEPT !.dbr = dbr], text, net, tr, now),
               "message", tr,
               Strip(text) \in judged, FALSE, counted)

\* time passes
Tick ==
    /\ now < MaxTicks * TickSeconds
    /\ now' = now + TickSeconds
    /\ last' = [NoOp EXCEPT !.op = "tick"]
    /\ UNCHANGED <<nt_vars, db_vars, user_data, analysis_cache, client, user_history,
                   user_sessions,
                   nav_history, last_cleanup, judged, scenario, steps>>

\* the stories of the cache specification: three keys for caches of two entries
StoryGoal ==
    <<"Kak", " ", "polzovatel", ",", " ", "ya", " ", "hochu", " ", "voyti", ",", " ",
      "chtoby", " ", "dostup">>

StoryPlain == <<"kak", " ", "polzovatel", " ", "hochu", " ", "voyti">>

\* StoryLogin in lower case: another text, the same cache key
StoryLoginLower == Lower(StoryLogin)

CacheTexts == {StoryLogin, StoryLoginLower, StoryGoal, StoryPlain}

CacheAnswers == {Answer(5, NoText), ServerError}

CacheMessage ==
    /\ HandleMessage(CacheTexts, CacheAnswers, Transport, StoreUp, FALSE)

\* ----------------------------------------------- the conversation's actions

\* the stories the user sends, and what the judge may answer
Texts == {StoryLogin}

Answers == {Answer(5, StoryGoal), ServerError}

Message ==
    /\ HandleMessage(Texts, Answers, Delivered, StoreUp, TRUE)

AnalyzeInvest ==
    /\ \E tr \in Delivered :
          Commit(analyze_invest(Current, tr), "analyze_invest", tr, FALSE, FALSE, TRUE)

\* the indexes a "use_similar_<index>" may carry: the buttons shown have 0, 1, 2,
\* a client may send any data
Indexes == {-1, 0, 1}

UseSimilar ==
    /\ \E index \in Indexes, tr \in Delivered :
          Commit(use_similar(Current, index, tr, now), "use_similar", tr, FALSE, FALSE, TRUE)

FixWithLlm ==
    /\ \E net \in Answers, tr \in Delivered :
          Commit(fix_with_llm(Current, net, tr, now), "fix_with_llm", tr, FALSE, FALSE, TRUE)

UseOwn ==
    /\ \E net \in Answers, tr \in Delivered :
          Commit(use_own(Current, net, tr, now), "use_own", tr, FALSE, FALSE, TRUE)

ImproveStory ==
    /\ \E net \in Answers, tr \in Transport :
          Commit(improve_story(Current, net, tr, now), "improve_story", tr, FALSE, FALSE, TRUE)

\* what the store does with a write
StoreWrites == {"ok", "fail"}

AnalyzeImproved ==
    /\ \E net \in Answers, tr \in Delivered, dbw \in StoreWrites :
          Commit(analyze_improved([Current EXCEPT !.dbw = dbw], net, tr, now),
                 "analyze_improved", tr, FALSE, FALSE, TRUE)

ImproveAgain ==
    /\ \E net \in Answers, tr \in Delivered :
          Commit(improve_again(Current, net, tr, now), "improve_again", tr, FALSE, FALSE, TRUE)

ShowImprovementHistory ==
    /\ \E tr \in Delivered :
          Commit(show_improvement_history(Current, tr), "show_improvement_history", tr,
                 FALSE, FALSE, TRUE)

ExportFile ==
    /\ \E tr \in Delivered :
          Commit(export_file(Current, tr), "export_file", tr, FALSE, FALSE, TRUE)

ExportImproved ==
    /\ \E tr \in Delivered :
          Commit(export_improved(Current, tr), "export_improved", tr, FALSE, FALSE, TRUE)

Export ==
    /\ \E tr \in Delivered : Commit(export(Current, tr), "export", tr, FALSE, FALSE, TRUE)

AddToDb ==
    /\ \E tr \in Delivered, dbw \in StoreWrites :
          Commit(add_to_db([Current EXCEPT !.dbw = dbw], tr), "add_to_db", tr,
                 FALSE, FALSE, TRUE)

ShowDatabase ==
    /\ \E tr \in Delivered :
          Commit(show_database_button(Current, tr), "show_database", tr, FALSE, FALSE, TRUE)

DbPage ==
    /\ \E page \in {1}, tr \in Delivered :
          Commit(show_database(Current, page, tr), "db_page", tr, FALSE, FALSE, TRUE)

Back ==
    /\ \E tr \in Transport : Commit(back(Current, tr), "back", tr, FALSE, FALSE, TRUE)

Restart ==
    /\ \E tr \in Transport :
          Commit(restart(Current, tr), "restart", tr, FALSE,
                 Has(user_data, "similar_stories") /\ Has(user_data, "improvement_chain"), TRUE)

ShowPage ==
    /\ \E state \in {HELP}, tr \in Delivered :
          Commit(show_page(Current, state, tr), "page", tr, FALSE, FALSE, TRUE)


\* ---------------------------------------------------------- specifications

\* ------------------------------------------------ InvestBot's navigation history

\* InvestBot.max_history_depth (the source's 20, scaled down)
nav_max_history_depth == 3

\* the length above which _cleanup_old_states trims a history (the source's 50)
CleanupTrigger == 5

\* the entries _cleanup_old_states keeps of a trimmed history (the source's 20)
CleanupKeep == 3

\* the seconds between two runs of _cleanup_old_states
CleanupSeconds == 1800

\* the times the navigation clock advances
MaxNavTicks == 2

\* history[-n:]
LastN(history, n) ==
    IF Len(history) <= n THEN history ELSE SubSeq(history, Len(history) - n + 1, Len(history))

\* InvestBot._cleanup_old_states: the history and last_cleanup afterwards
cleanup_old_states(history, cleaned, time) ==
    IF time - cleaned < CleanupSeconds
    THEN [history |-> history, last_cleanup |-> cleaned]
    ELSE [history |-> IF Len(history) > CleanupTrigger THEN LastN(history, CleanupKeep)
                      ELSE history,
          last_cleanup |-> time]

\* InvestBot._save_state without the pop(0) of a full history
save_state_keeping_oldest(history, cleaned, time, state_name) ==
    LET c == cleanup_old_states(history, cleaned, time)
    IN  [c EXCEPT !.history = Append(@, state_name)]

\* InvestBot._save_state: the history and last_cleanup afterwards
save_state(history, cleaned, time, state_name) ==
    LET c == cleanup_old_states(history, cleaned, time)
        room == IF Len(c.history) >= nav_max_history_depth THEN Tail(c.history)
                ELSE c.history
    IN  [c EXCEPT !.history = Append(room, state_name)]

\* InvestBot.start: the history is emptied, then the main menu is saved
nav_start(cleaned, time) == save_state(<<>>, cleaned, time, "main_menu")

\* InvestBot._handle_back and _handle_close_help: the last screen is dropped, or start
handle_back(history, cleaned, time) ==
    IF Len(history) > 1
    THEN [history |-> SubSeq(history, 1, Len(history) - 1), last_cleanup |-> cleaned]
    ELSE nav_start(cleaned, time)

\* the handlers that save a screen onto the history as it is, and the screens saved
NavSaves == {"nav_help", "nav_analyze_invest", "nav_export_menu", "nav_use_similar"}

NavScreens == {"help", "waiting_user_story", "export_menu", "analysis_from_db"}

\* InvestBot._handle_use_similar: the stored analysis is saved as a screen and shown;
\* an index outside the list only shows "Неверный выбор похожей истории."
nav_use_similar(history, cleaned, time, in_range) ==
    IF in_range THEN save_state(history, cleaned, time, "analysis_from_db")
    ELSE [history |-> history, last_cleanup |-> cleaned]

\* the navigation state becomes r; the conversation of SimpleBot stays as it is;
\* "full" records that a screen was saved onto a history that was full
NavCommit(r, op) ==
    /\ nav_history' = r.history
    /\ last_cleanup' = r.last_cleanup
    /\ last' = [NoOp EXCEPT !.op = op,
                            !.out = IF op \in NavSaves /\ Len(nav_history) >= nav_max_history_depth
                                    THEN "full" ELSE "none"]
    /\ UNCHANGED <<nt_vars, db_vars, user_data, analysis_cache, client, user_history,
                   user_sessions, now,
                   judged, scenario, steps>>

\* command /start
NavStart == NavCommit(nav_start(last_cleanup, now), "nav_start")

\* command /help and button "help"
NavHelp == NavCommit(save_state(nav_history, last_cleanup, now, "help"), "nav_help")

\* button "analyze_invest"
NavAnalyzeInvest ==
    NavCommit(save_state(nav_history, last_cleanup, now, "waiting_user_story"),
              "nav_analyze_invest")

\* button "export_menu"
NavExportMenu ==
    NavCommit(save_state(nav_history, last_cleanup, now, "export_menu"), "nav_export_menu")

\* button "back"
NavBack == NavCommit(handle_back(nav_history, last_cleanup, now), "nav_back")

\* button "close_help"
NavCloseHelp == NavCommit(handle_back(nav_history, last_cleanup, now), "nav_close_help")

\* button "use_similar_<index>"
NavUseSimilar ==
    \E in_range \in BOOLEAN :
        NavCommit(nav_use_similar(nav_history, last_cleanup, now, in_range),
                  IF in_range THEN "nav_use_similar" ELSE "nav_invalid_choice")

\* button "restart": the history is emptied, then start
NavRestart == NavCommit(nav_start(last_cleanup, now), "nav_restart")

\* half an hour passes
NavTick ==
    /\ now < MaxNavTicks * CleanupSeconds
    /\ now' = now + CleanupSeconds
    /\ last' = [NoOp EXCEPT !.op = "tick"]
    /\ UNCHANGED <<nt_vars, db_vars, user_data, analysis_cache, client, user_history,
                   user_sessions,
                   nav_history, last_cleanup, judged, scenario, steps>>

\* the normalizer applied to every short text
InitNorm == NormStart /\ DbInit /\ SessInit /\ steps = 0

NextNorm == NormalizeOnce \/ NormalizeTwice

SpecNorm == InitNorm /\ [][NextNorm]_vars

InitIdle == NormIdle /\ DbInit /\ SessInit /\ steps = 0

\* the store: examples saved and searched for
NextDb == DbAddExample \/ DbFindSimilar

SpecDb == InitIdle /\ [][NextDb]_vars

\* the store searched with limits that its rows can exceed
FindLimits == {1, 2}

LimitFindSimilar ==
    /\ FindSimilar(DbQueries, {ThresholdMedium}, FindLimits)

NextLimit == DbAddExample \/ LimitFindSimilar

SpecLimit == InitIdle /\ [][NextLimit]_vars

\* the two result caches: messages over an empty store, and the clock
NextCache == CacheMessage \/ Tick

SpecCache == InitIdle /\ [][NextCache]_vars

\* the store outlives a conversation: it begins empty, or with the golden example
\* that the analysis of an improved story saved earlier
StoredGolden ==
    add_example(<<>>, StoryGoal, normalize_text(StoryGoal),
                format_analysis_for_display(Judgment(5), StoryGoal), TRUE, 5)

\* the conversation: one user's messages and button presses
Init ==
    /\ NormIdle
    /\ SessInit
    /\ db_rows \in {<<>>, StoredGolden}
    /\ db_cache = EmptyCache
    /\ fs = NoFind
    /\ in_flight = NoPending
    /\ steps = MaxSteps

Next ==
    \/ Message \/ AnalyzeInvest \/ UseSimilar \/ FixWithLlm \/ UseOwn
    \/ ImproveStory \/ AnalyzeImproved \/ ImproveAgain \/ ShowImprovementHistory
    \/ ExportFile \/ ExportImproved \/ Export \/ AddToDb
    \/ ShowDatabase \/ DbPage \/ Back \/ Restart \/ ShowPage

Spec == Init /\ [][Next]_vars

\* interleaving: find_similar of one handler is suspended at the awaits of its
\* SELECTs while add_example of another handler runs.  A step is one SELECT with
\* what follows it up to the next one; the write of self._cache is taken together
\* with the SELECT whose rows it stores, and add_example's INSERT, commit and
\* self._cache.clear() are one step: fewer interleavings than the awaits allow
CachePut(cache, key, results) ==
    [k \in DOMAIN cache \cup {key} |-> IF k = key THEN results ELSE cache[k]]

\* find_similar returns: the call is over, its result is seen
FindReturns(call, tier, cached, results) ==
    /\ fs' = [called |-> TRUE, query |-> call.query, threshold |-> call.threshold,
              limit |-> call.limit, stored |-> StoredAs(db_rows, call.query),
              cached |-> cached, tier |-> tier, result |-> results]
    /\ in_flight' = NoPending

\* find_similar up to "conn = await self.get_connection()": a cached result is
\* returned, otherwise the call goes on to its first SELECT
RaceFindStart ==
    /\ ~in_flight.active
    /\ \E query \in DbQueries, threshold \in {ThresholdMedium} :
          LET call == [active |-> TRUE, query |-> query, threshold |-> threshold,
                       limit |-> DefaultLimit, stage |-> "exact"]
              key == SimilarKey(query, threshold, DefaultLimit)
          IN  IF key \in DOMAIN db_cache
              THEN /\ FindReturns(call, "cache", TRUE, db_cache[key])
                   /\ UNCHANGED db_cache
              ELSE /\ in_flight' = call
                   /\ UNCHANGED <<fs, db_cache>>
    /\ UNCHANGED <<db_rows, nt_vars, sess_vars>>

\* find_similar, "# 1. Поиск точных совпадений"
RaceFindExact ==
    /\ in_flight.active /\ in_flight.stage = "exact"
    /\ LET exact == ExactMatches(db_rows, normalize_query(in_flight.query), in_flight.limit)
           results == [i \in 1..Len(exact) |-> ResultTuple(exact[i], SimOne)]
       IN  IF exact # <<>>
           THEN /\ FindReturns(in_flight, "exact", FALSE, results)
                /\ db_cache' = CachePut(db_cache,
                                        SimilarKey(in_flight.query, in_flight.threshold,
                                                   in_flight.limit), results)
           ELSE /\ in_flight' = [in_flight EXCEPT !.stage = "keyword"]
                /\ UNCHANGED <<fs, db_cache>>
    /\ UNCHANGED <<db_rows, nt_vars, sess_vars>>

\* find_similar, "# 2. Поиск по ключевым словам"
RaceFindKeywords ==
    /\ in_flight.active /\ in_flight.stage = "keyword"
    /\ LET results == find_by_keywords(db_rows,
                                       extract_keywords(normalize_query(in_flight.query)),
                                       in_flight.limit)
       IN  IF results # <<>>
           THEN /\ FindReturns(in_flight, "keyword", FALSE, results)
                /\ db_cache' = CachePut(db_cache,
                                        SimilarKey(in_flight.query, in_flight.threshold,
                                                   in_flight.limit), results)
           ELSE /\ in_flight' = [in_flight EXCEPT !.stage = "ratio"]
                /\ UNCHANGED <<fs, db_cache>>
    /\ UNCHANGED <<db_rows, nt_vars, sess_vars>>

\* find_similar, "# 3. Семантический поиск"
RaceFindRatio ==
    /\ in_flight.active /\ in_flight.stage = "ratio"
    /\ LET results == ratio_tier(db_rows, normalize_query(in_flight.query),
                                 in_flight.threshold, in_flight.limit)
       IN  /\ FindReturns(in_flight, "ratio", FALSE, results)
           /\ db_cache' = CachePut(db_cache,
                                   SimilarKey(in_flight.query, in_flight.threshold,
                                              in_flight.limit), results)
    /\ UNCHANGED <<db_rows, nt_vars, sess_vars>>

NextRace ==
    \/ DbAddExample \/ RaceFindStart \/ RaceFindExact \/ RaceFindKeywords
    \/ RaceFindRatio

SpecRace == InitIdle /\ [][NextRace]_vars

\* histories: the analyses of several users are recorded, one call of
\* _add_to_user_history after the other
Users == {1, 2}

HistoryStories == {StoryLogin, StoryGoal, StoryAccess}

AddToUserHistory ==
    /\ \E user_id \in Users, story \in HistoryStories :
          LET bot == bot_add_to_user_history(user_history, user_sessions, user_id, story,
                                             Judgment(5))
          IN  /\ user_history' = bot.user_history
              /\ user_sessions' = bot.user_sessions
              /\ last' = [NoOp EXCEPT
                             !.op = "add_to_user_history",
                             !.index = user_id,
                             !.out = IF Len(HistoryOf(user_history, user_id))
                                          >= max_history_depth
                                     THEN "full" ELSE "none"]
    /\ UNCHANGED <<nt_vars, db_vars, user_data, analysis_cache, client, nav_history,
                   last_cleanup, now, judged, scenario, steps>>

NextHistory == AddToUserHistory

SpecHistory == InitIdle /\ [][NextHistory]_vars

\* scoring: the conversations that analyse, improve and store, the judge stating
\* scores within and beyond the scale
ScoreAnswers == {Answer(3, StoryGoal), Answer(6, StoryGoal), Answer(9, StoryGoal)}

ScoreMessage ==
    /\ HandleMessage(Texts, ScoreAnswers, Delivered, StoreUp, TRUE)

ScoreImproveStory ==
    /\ \E net \in ScoreAnswers, tr \in Delivered :
          Commit(improve_story(Current, net, tr, now), "improve_story", tr, FALSE, FALSE, TRUE)

ScoreAnalyzeImproved ==
    /\ \E net \in ScoreAnswers, tr \in Delivered :
          Commit(analyze_improved(Current, net, tr, now), "analyze_improved", tr,
                 FALSE, FALSE, TRUE)

ScoreAddToDb ==
    /\ \E tr \in Delivered :
          Commit(add_to_db(Current, tr), "add_to_db", tr, FALSE, FALSE, TRUE)

NextScore == ScoreMessage \/ ScoreImproveStory \/ ScoreAnalyzeImproved \/ ScoreAddToDb

SpecScore == Init /\ [][NextScore]_vars

\* the conversations that only analyse, improve, look at the chain and restart
InitChain == NormIdle /\ DbInit /\ SessInit /\ steps = MaxChainSteps

NextChain == Message \/ ImproveStory \/ ShowImprovementHistory \/ Restart

SpecChain == InitChain /\ [][NextChain]_vars
\* the screens of InvestBot: its navigation history and the half-hourly cleanup
NextNav ==
    \/ NavStart \/ NavHelp \/ NavAnalyzeInvest \/ NavExportMenu
    \/ NavBack \/ NavCloseHelp \/ NavRestart \/ NavUseSimilar \/ NavTick

SpecNav == InitIdle /\ [][NextNav]_vars

\* a valid story without punctuation, about something else than the stored one
StoryAccount ==
    <<"kak", " ", "polzovatel", " ", "hochu", " ", "akkaunt", " ", "chtoby", " ", "voyti">>

RetrieveTexts == {StoryLogin, StoryGoal, StoryAccount, StoryAccess}

RetrieveMessage ==
    /\ HandleMessage(RetrieveTexts, Answers, Transport, StoreUp, FALSE)

\* retrieval: messages over an empty store and over the store with the golden
\* example, and the clock
InitRetrieve ==
    /\ NormIdle
    /\ SessInit
    /\ db_rows \in {<<>>, StoredGolden}
    /\ db_cache = EmptyCache
    /\ fs = NoFind
    /\ in_flight = NoPending
    /\ steps = 0

NextRetrieve == RetrieveMessage \/ Tick

SpecRetrieve == InitRetrieve /\ [][NextRetrieve]_vars

\* the judge client alone: requests for a completion and for a token while the
\* service answers, answers with a status of 500, or cannot be reached
MaxFailures == 7

BreakerPrompts == {build_invest_prompt(StoryLogin), build_fix_prompt(StoryLogin)}

BreakerNets == {Answer(5, StoryGoal), ServerError, RequestError}

\* the failed requests in a row once `result` has returned: a request that
\* succeeded ends the row, and so does the circuit closing on its timeout
FailuresInARow(result) ==
    LET closes == client.circuit_open /\ now >= client.circuit_open_until
        before == IF closes THEN 0 ELSE last.index
    IN  IF result.ok /\ result.sent > 0 THEN 0
        ELSE IF result.ok THEN before
        ELSE before + result.sent

ClientCall(result, op) ==
    /\ result.cl.error_count <= MaxFailures
    /\ client' = result.cl
    /\ last' = [NoOp EXCEPT !.op = op,
                            !.out = IF result.sent = 0
                                    THEN IF result.ok THEN "cached" ELSE "refused"
                                    ELSE IF result.ok THEN "answered" ELSE "failed",
                            !.judge_calls = result.sent,
                            !.index = FailuresInARow(result)]
    /\ UNCHANGED <<nt_vars, db_vars, user_data, analysis_cache, user_history,
                   user_sessions, now,
                   nav_history, last_cleanup, judged, scenario, steps>>

GetChatCompletion ==
    /\ \E messages \in BreakerPrompts, net \in BreakerNets :
          ClientCall(get_chat_completion(client, messages, net, now), "get_chat_completion")

GetToken ==
    /\ \E net \in BreakerNets :
          ClientCall(get_token(client, net, now), "get_token")

\* time passes between two requests
BreakerTick ==
    /\ now < MaxTicks * TickSeconds
    /\ now' = now + TickSeconds
    /\ last' = [last EXCEPT !.op = "tick", !.out = "none", !.judge_calls = 0]
    /\ UNCHANGED <<nt_vars, db_vars, user_data, analysis_cache, client, user_history,
                   user_sessions,
                   nav_history, last_cleanup, judged, scenario, steps>>

NextBreaker == GetChatCompletion \/ GetToken \/ BreakerTick

SpecBreaker == InitIdle /\ [][NextBreaker]_vars

\* InvestBot._check_and_improve_story, one level of its recursion at a step
max_attempts == 2

StoryCan ==
    <<"Kak", " ", "polzovatel", ",", " ", "ya", " ", "mogu", " ", "voyti", ",", " ",
      "chtoby", " ", "dostup">>

\* the stories a fix may return: not valid, valid, valid and too general
CheckStories == {StoryLogin, StoryAccess, StoryGoal, StoryCan}

CheckReplies == {Answer(5, story) : story \in CheckStories} \cup {ServerError}

\* the story is returned as it is: it is valid and not too general
Passes(story) == bot_is_valid_user_story(story) /\ ~too_general(story)

\* a level that returns original_story when no attempt is left
check_and_improve_returning_original(c, reply) ==
    LET fixed_story == c.candidates[Len(c.candidates)]
        asking(prompt) ==
            IF reply.ok
            THEN [c EXCEPT !.candidates = Append(@, reply.story),
                           !.max_attempts = @ - 1, !.calls = @ + 1,
                           !.asked = Append(@, prompt)]
            ELSE [c EXCEPT !.status = "raised", !.calls = @ + 1,
                           !.asked = Append(@, prompt)]
    IN  IF ~bot_is_valid_user_story(fixed_story)
        THEN IF c.max_attempts > 0 THEN asking("fix")
             ELSE [c EXCEPT !.status = "returned", !.result = c.original_story]
        ELSE IF too_general(fixed_story) /\ c.max_attempts > 0 THEN asking("specific")
        ELSE [c EXCEPT !.status = "returned", !.result = fixed_story]

\* one level of _check_and_improve_story(original_story, fixed_story, max_attempts),
\* fixed_story being the last candidate: it returns fixed_story, or it calls the
\* judge, whose reply is the next level's fixed_story or an exception that ends
\* the call
check_and_improve_story(c, reply) ==
    LET fixed_story == c.candidates[Len(c.candidates)]
        asking(prompt) ==
            IF reply.ok
            THEN [c EXCEPT !.candidates = Append(@, reply.story),
                           !.max_attempts = @ - 1, !.calls = @ + 1,
                           !.asked = Append(@, prompt)]
            ELSE [c EXCEPT !.status = "raised", !.calls = @ + 1,
                           !.asked = Append(@, prompt)]
        returned == [c EXCEPT !.status = "returned", !.result = fixed_story]
    IN  IF ~bot_is_valid_user_story(fixed_story)
        THEN IF c.max_attempts > 0 THEN asking("fix") ELSE returned
        ELSE IF too_general(fixed_story) /\ c.max_attempts > 0 THEN asking("specific")
        ELSE returned

\* fix_with_llm calls _check_and_improve_story(text, fixed_text)
CheckStart ==
    /\ check_call.status # "running"
    /\ \E original_story \in {StoryLogin, StoryAccess}, fixed_story \in CheckStories :
          check_call' = [NoCheck EXCEPT !.status = "running",
                                        !.original_story = original_story,
                                        !.candidates = <<fixed_story>>,
                                        !.max_attempts = max_attempts]
    /\ UNCHANGED <<nt_in, nt_out, nt_out2, nt_phase, db_vars, sess_vars>>

CheckLevel ==
    /\ check_call.status = "running"
    /\ \E reply \in CheckReplies :
          check_call' = check_and_improve_story(check_call, reply)
    /\ UNCHANGED <<nt_in, nt_out, nt_out2, nt_phase, db_vars, sess_vars>>

NextCheck == CheckStart \/ CheckLevel

\* a level that was entered is run
SpecCheck == InitIdle /\ [][NextCheck]_vars /\ WF_vars(CheckLevel)

\* improving: two different stories are sent and improved
ImproveTexts == {StoryLogin, StoryAccount}

ImproveMessage ==
    /\ HandleMessage(ImproveTexts, Answers, Delivered, StoreUp, TRUE)

NextImprove == ImproveMessage \/ ImproveStory

SpecImprove == InitChain /\ [][NextImprove]_vars

\* outage: messages while the store answers or cannot be reached, and the clock
OutageTexts == {StoryLogin, StoryGoal}

OutageMessage ==
    /\ HandleMessage(OutageTexts, Answers, Delivered, StoreReads, FALSE)

NextOutage == OutageMessage \/ Tick

SpecOutage == InitRetrieve /\ [][NextOutage]_vars

\* ------------------------------------------------------------------ claims

\* the row of the store a result tuple was made from
RowsOf(rows, tuple) ==
    {i \in 1..Len(rows) : rows[i].query = tuple.story /\ rows[i].score = tuple.score}

\* C2: once a story T is stored with normalize_text(T) as its key,
\* find_similar(T, threshold) returns T first, with similarity 1.0
C2_ExactTierFindsStored ==
    (fs.called /\ fs.stored) =>
        /\ fs.result # <<>>
        /\ fs.result[1].story = fs.query
        /\ fs.result[1].sim = SimOne

\* C4: when a golden example of score 5 and a non-golden example of score 0 with
\* a higher similarity both match, the result holds only the golden one
C4_GoldenPreferred ==
    fs.called =>
        ~ \E i, j \in 1..Len(fs.result) :
             /\ fs.result[j].score = 5
             /\ \E r \in RowsOf(db_rows, fs.result[j]) : db_rows[r].is_golden
             /\ fs.result[i].score = 0
             /\ \E r \in RowsOf(db_rows, fs.result[i]) : ~db_rows[r].is_golden
             /\ FracGT(fs.result[i].sim, fs.result[j].sim)

\* C3: normalize_text is idempotent: normalizing an already normalized text
\* gives the same text, for every input
C3_NormalizeIdempotent == nt_phase = 2 => nt_out2 = nt_out


\* C1: a message whose text the judge has analysed, the result still being in the
\* analysis cache, is answered from that cache: no get_chat_completion call, no
\* find_similar call, and the cached entry becomes the session's last analysis
C1_CachedJudgmentServed ==
    (last.op = "message" /\ last.known) =>
        /\ last.judge_calls = 0
        /\ last.find_calls = 0
        /\ last.tr = "ok" => last.out = "cached"
        /\ HasKey(analysis_cache, lookup_key(user_data["initial_story"]))
        /\ user_data["last_analysis"] =
               ValueOf(analysis_cache, lookup_key(user_data["initial_story"]))

C1_Witness ==
    /\ last.op = "message" /\ last.known /\ last.out = "cached"
    /\ user_data["last_analysis"].story = user_data["initial_story"]
    /\ client.response_cache # <<>>

\* C5: the entry a message has just been answered from is the most recently used,
\* so while the analysis cache holds another entry the next step does not evict it
C5_ReadEntryNotEvictedFirst ==
    [][(/\ last.op = "message" /\ last.out = "cached"
        /\ Len(analysis_cache) >= 2)
       => lookup_key(user_data["initial_story"]) \in Keys(analysis_cache')]_vars

\* C6: neither result cache ever holds more entries than its maximum size
C6_CachesBounded ==
    /\ Len(analysis_cache) <= max_cache_size
    /\ Len(client.response_cache) <= max_response_cache

C6_Witness ==
    /\ last.evicted
    /\ Len(analysis_cache) = max_cache_size
    /\ Len(client.response_cache) = max_response_cache
    /\ \E t \in CacheTexts :
          ~HasKey(client.response_cache, build_invest_prompt(t))

\* C7: a judgment answered from the analysis cache is no older than the ttl
C7_ServedWithinTtl ==
    (last.op = "message" /\ last.out = "cached") =>
        now - user_data["last_analysis"].timestamp <= response_ttl


\* C8: after "restart" the session is in the main menu and holds neither similar
\* stories nor an improvement chain, whether or not the menu could be rendered
C8_RestartLandsInMainMenu ==
    last.op = "restart" =>
        /\ InMainMenu(user_data)
        /\ ~Has(user_data, "similar_stories")
        /\ ~Has(user_data, "improvement_chain")

C8_Witness ==
    /\ last.op = "restart" /\ last.tr = "fail" /\ last.cleared
    /\ Has(user_data, "last_analysis")

\* C9: from the main menu with no improvement chain, a message that is analysed,
\* "improve_story" twice and "show_improvement_history" leave a chain of three
\* versions numbered 1, 2, 3
C9_ChainOfThree ==
    scenario.c9 = 4 =>
        /\ Has(user_data, "improvement_chain")
        /\ Len(user_data["improvement_chain"]) = 3
        /\ \A i \in 1..3 : user_data["improvement_chain"][i].version = i

\* C10: from the main menu, a message that is analysed and then "back" leave the
\* session in the main menu
C10_AnalyzeBackToMainMenu == scenario.c10 = 2 => InMainMenu(user_data)

C10_Witness ==
    /\ scenario.c10 = 2
    /\ Has(user_data, "last_analysis")
    /\ Has(user_data, "current_state") /\ user_data["current_state"] = MAIN_MENU

\* C11: searching with threshold 0.75 a store that holds one entry whose ratio to
\* the query is at least 0.95 (and below 1) and one whose ratio is between 0.75 and
\* 0.95, the result holds each of the two once, the first at similarity 0.99 and
\* the second at 0.7 * ratio + 0.3 * (common words / all words)
C11_TieredSimilarity ==
    (fs.called /\ fs.threshold = ThresholdMedium) =>
        \A a, b \in 1..Len(db_rows) :
            LET nq == normalize_query(fs.query)
                ra == token_sort_ratio(nq, db_rows[a].normalized_query)
                rb == token_sort_ratio(nq, db_rows[b].normalized_query)
                qw == {Split(nq)[i] : i \in 1..Len(Split(nq))}
                bw == {Split(db_rows[b].normalized_query)[i] :
                          i \in 1..Len(Split(db_rows[b].normalized_query))}
                common == Cardinality(qw \cap bw)
                all == Cardinality(qw \cup bw)
                At(row) == {i \in 1..Len(fs.result) : fs.result[i].story = db_rows[row].query}
            IN  (/\ AtLeastPct(ra, ThresholdHigh) /\ ra # SimOne /\ ~FracGE(ra, SimOne)
                 /\ AtLeastPct(rb, ThresholdMedium) /\ ~AtLeastPct(rb, ThresholdHigh))
                => /\ Cardinality(At(a)) = 1
                   /\ Cardinality(At(b)) = 1
                   /\ \A i \in At(a) : fs.result[i].sim.n * 100 = 99 * fs.result[i].sim.d
                   /\ \A i \in At(b) :
                          fs.result[i].sim.n * 10 * rb.d * all =
                              fs.result[i].sim.d * (7 * rb.n * all + 3 * common * rb.d)

\* C12: "use_similar_<index>" with an index outside the offered list (negative, or
\* not below its length) is answered with an error message and uses nothing: no
\* usage count grows, last_analysis stays, no cache or history entry is written
C12_OutOfRangePickRefused ==
    [][(/\ last'.op = "use_similar"
        /\ \/ last'.index < 0
           \/ last'.index >= Len(similar_stories(user_data)))
       => /\ last'.out \in {"refused", "error"}
          /\ db_rows' = db_rows
          /\ analysis_cache' = analysis_cache
          /\ user_history' = user_history
          /\ Has(user_data', "last_analysis") = Has(user_data, "last_analysis")
          /\ Has(user_data, "last_analysis")
                 => user_data'["last_analysis"] = user_data["last_analysis"]]_vars

\* C13: a button that refers to data the session does not hold ("use_similar" out
\* of range, "analyze_improved" without an improved story, "fix_with_llm" or
\* "use_own" without the original story, an export or "add_to_db" without a last
\* analysis) is answered with a message and leaves the session as it was,
\* current_state included
C13_AbsentDataLeavesSession ==
    [][(\/ /\ last'.op = "use_similar"
           /\ last'.index \notin 0..(Len(similar_stories(user_data)) - 1)
        \/ /\ last'.op = "analyze_improved"
           /\ ~Truthy(user_data, "improved_story")
        \/ /\ last'.op \in {"fix_with_llm", "use_own"}
           /\ ~Truthy(user_data, "original")
        \/ /\ last'.op \in {"export_file", "add_to_db"}
           /\ ~Has(user_data, "last_analysis"))
       => /\ last'.out \in {"refused", "error"}
          /\ user_data' = user_data]_vars

\* C14: when the judge call of a handler fails, the session is as it was before the
\* handler ran: current_state, pending_text, last_analysis and improvement_chain
C14_JudgeFailureKeepsSession ==
    [][(/\ last'.out = "judge failed"
        /\ last'.op \in {"message", "use_own", "fix_with_llm", "improve_story",
                         "improve_again", "analyze_improved"})
       => LET kept == {"current_state", "pending_text", "last_analysis",
                       "improvement_chain"}
          IN  Restrict(user_data', kept) = Restrict(user_data, kept)]_vars

\* C15: when the store raises on the auto-save of an analysed improved story, the
\* analysis stays what the user is shown and is recorded as last_analysis
C15_AutoSaveBestEffort ==
    (last.op = "analyze_improved" /\ last.out \in {"judged", "save failed"}) =>
        /\ last.out = "judged"
        /\ Has(user_data, "last_analysis")
        /\ user_data["last_analysis"].story = user_data["improved_story"]

\* C16: no two rows of the store have the same normalized text
C16_NormalizedTextUnique ==
    \A i, j \in 1..Len(db_rows) :
        db_rows[i].normalized_query = db_rows[j].normalized_query => i = j

\* C17: the navigation history of a chat never holds more than
\* max_history_depth entries, and a screen saved onto a full history drops the
\* oldest entry: the entries kept are the most recent ones in their order, followed
\* by the new one
C17_NavHistoryBounded ==
    [][/\ Len(nav_history') <= nav_max_history_depth
       /\ (Len(nav_history) = nav_max_history_depth /\ last'.op \in NavSaves) =>
              /\ Len(nav_history') = nav_max_history_depth
              /\ SubSeq(nav_history', 1, nav_max_history_depth - 1) = Tail(nav_history)
              /\ nav_history'[nav_max_history_depth] \in NavScreens]_vars

\* a screen was saved onto a full history, which lost the main menu it began with
C17_Witness ==
    /\ last.op \in NavSaves /\ last.out = "full"
    /\ Len(nav_history) = nav_max_history_depth
    /\ \A i \in 1..Len(nav_history) : nav_history[i] # "main_menu"
    /\ nav_history[1] # nav_history[nav_max_history_depth]

\* the versions a session's improvement chain holds (none without a chain)
ChainOf(ud) == IF Has(ud, "improvement_chain") THEN ud["improvement_chain"] ELSE <<>>

\* C18: the version numbers of the improvement chain are 1, 2, ..., n in list
\* order, and the chain only grows at its end: no handler other than restart
\* removes the chain, removes an entry or alters one
C18_ChainAppendOnly ==
    [][/\ \A i \in 1..Len(ChainOf(user_data')) : ChainOf(user_data')[i].version = i
       /\ (Has(user_data, "improvement_chain") /\ last'.op # "restart") =>
              /\ Has(user_data', "improvement_chain")
              /\ Len(ChainOf(user_data')) >= Len(ChainOf(user_data))
              /\ SubSeq(ChainOf(user_data'), 1, Len(ChainOf(user_data))) = ChainOf(user_data)]_vars

\* an improvement was added to a chain that held the initial version
C18_Witness ==
    /\ last.op \in {"improve_story", "improve_again"}
    /\ Len(ChainOf(user_data)) >= 2
    /\ ChainOf(user_data)[Len(ChainOf(user_data))].version = Len(ChainOf(user_data))

\* C19: a valid story that is not an improved one is answered from the store,
\* without a request to the judge, only when the search found a story of
\* similarity 0.95 or more; and the judge is asked once and its analysis shown
\* (unless the judge fails) exactly when the search found nothing at any of the
\* three thresholds
C19_ReuseOnlyNearDuplicate ==
    (last.op = "message" /\ last.tr = "ok" /\ last.matched # "n/a") =>
        /\ (last.out = "reused" /\ last.judge_calls = 0) =>
               FracGE(last.sim, Frac(ThresholdHigh, 100))
        /\ (last.out = "judged" /\ last.judge_calls = 1) => last.matched = "none"
        /\ last.matched = "none" =>
               last.judge_calls = 1 /\ last.out \in {"judged", "judge failed"}

\* C20: when the analysis of a story finds similar stories under the medium or
\* the low threshold and offers them, the session's state becomes
\* SHOWING_SIMILAR and at most three candidates are kept; and no reachable
\* session keeps more than three candidates
C20_OfferShowsSimilar ==
    /\ Has(user_data, "similar_stories") => Len(user_data["similar_stories"]) <= 3
    /\ last.out = "candidates" =>
           /\ Has(user_data, "similar_stories")
           /\ Has(user_data, "current_state")
           /\ user_data["current_state"] = SHOWING_SIMILAR

\* the story that "use_similar_<index>" picks from the stories offered
Chosen(ud, index) == similar_stories(ud)[list_index(similar_stories(ud), index)]

C22_SavesLastAnalysis ==
    [][last'.op = "add_to_db" =>
          /\ ~Has(user_data, "last_analysis") => db_rows' = db_rows
          /\ last'.out = "stored" =>
                /\ Len(db_rows') = Len(db_rows) + 1
                /\ db_rows'[Len(db_rows')].query = user_data["last_analysis"].story
                /\ db_rows'[Len(db_rows')].answer = user_data["last_analysis"].analysis]_vars

\* C23: "use_own" sends the story kept as `original` straight to the judge: it
\* makes no similarity search, never offers similar stories nor ends in
\* SHOWING_SIMILAR, and when the judge has answered, last_analysis is that
\* story with the judgment just given
C23_UseOwnSkipsSearch ==
    [][last'.op = "use_own" =>
          /\ last'.find_calls = 0 /\ last'.matched = "n/a" /\ db_cache' = db_cache
          /\ last'.out \notin {"candidates", "reused"}
          /\ user_data'["current_state"] # SHOWING_SIMILAR
          /\ last'.out = "judged" =>
                /\ last'.judge_calls = 1
                /\ user_data'["last_analysis"].story = user_data["original"]
                /\ user_data'["last_analysis"].analysis =
                       format_analysis_for_display(Judgment(5), user_data["original"])]_vars

\* C24: "analyze_improved" never reuses a stored judgment nor offers similar
\* stories, and the story it analyses, improved_story, is the latest entry of
\* the improvement chain: whenever the chain is not empty and an improved story
\* is held the two are equal, also after an improvement whose render failed
C24_ImprovedIsLatestVersion ==
    /\ last.op = "analyze_improved" => last.out \notin {"reused", "candidates"}
    /\ (ChainOf(user_data) # <<>> /\ Truthy(user_data, "improved_story")) =>
           user_data["improved_story"] = ChainOf(user_data)[Len(ChainOf(user_data))].story

C27_ShowDatabaseIdempotent ==
    [][last'.op \in {"show_database", "db_page"} =>
          LET page == last'.index
              again == show_database(Work(user_data', analysis_cache', db_rows',
                                          db_cache', client', user_history', judged'),
                                     page, "ok")
          IN  /\ (/\ Has(user_data, "current_db_page")
                  /\ user_data["current_db_page"] = page
                  /\ user_data["current_state"] = SHOWING_DATABASE)
                     => /\ last'.out = "same page"
                        /\ user_data' = user_data
                        /\ db_rows' = db_rows /\ db_cache' = db_cache
              /\ last'.out \in {"database", "same page"}
              /\ again.out = "same page"
              /\ again.ud = user_data'
              /\ again.rows = db_rows' /\ again.dbc = db_cache']_vars

\* page 1 was asked for while it was on display
C27_Witness ==
    /\ last.op = "db_page" /\ last.out = "same page" /\ last.index = 1
    /\ user_data["current_db_page"] = 1
    /\ user_data["current_state"] = SHOWING_DATABASE

\* the screen each handler of InvestBot renders, and the handlers that render one
\* without being back or restart
NavScreenOf(op) ==
    CASE op = "nav_start" -> "main_menu"
      [] op = "nav_help" -> "help"
      [] op = "nav_analyze_invest" -> "waiting_user_story"
      [] op = "nav_export_menu" -> "export_menu"
      [] op = "nav_use_similar" -> "analysis_from_db"
      [] op = "nav_invalid_choice" -> "invalid_choice"
      [] OTHER -> "none"

NavRenders == NavSaves \cup {"nav_start", "nav_invalid_choice"}

\* C28: every handler that renders a screen, other than back and restart, leaves
\* that screen as the last entry of the chat's navigation history (the screen of
\* an index outside the offered list included), and back and restart add no entry:
\* the history after them is a prefix of the history before
C28_EveryScreenPushed ==
    [][/\ last'.op \in NavRenders =>
              /\ nav_history' # <<>>
              /\ nav_history'[Len(nav_history')] = NavScreenOf(last'.op)
       /\ last'.op \in {"nav_back", "nav_restart"} =>
              /\ Len(nav_history') <= Len(nav_history)
              /\ nav_history' = SubSeq(nav_history, 1, Len(nav_history'))]_vars

\* C29: in find_similar the keyword tier gives the result only when the exact tier
\* and the ratio tier both give nothing: whenever no stored row matches exactly and
\* some row reaches the ratio threshold, the result is that of the ratio tier
C29_KeywordTierIsLast ==
    [][(db_rows' = db_rows /\ fs'.called) =>
          LET nq == normalize_query(fs'.query)
              exact == ExactMatches(db_rows, nq, DefaultLimit)
              ratio == ratio_tier(db_rows, nq, fs'.threshold, DefaultLimit)
          IN  /\ (exact = <<>> /\ ratio # <<>>) => fs'.result = ratio
              /\ (~fs'.cached /\ fs'.tier = "keyword") =>
                     (exact = <<>> /\ ratio = <<>>)]_vars

\* C30: every tuple find_similar returns reports a similarity within [0, 1] that
\* is at least the threshold searched with, whichever tier produced it
C30_ResultsReachThreshold ==
    fs.called =>
        \A i \in 1..Len(fs.result) :
            /\ 0 <= fs.result[i].sim.n
            /\ fs.result[i].sim.n <= fs.result[i].sim.d
            /\ AtLeastPct(fs.result[i].sim, fs.threshold)

\* C31: find_similar returns at most limit results, and its results are in the
\* order of their similarity, the highest first (in the exact tier every
\* similarity is 1)
C31_LimitedAndSorted ==
    fs.called =>
        /\ Len(fs.result) <= fs.limit
        /\ \A i, j \in 1..Len(fs.result) :
               i < j => FracGE(fs.result[i].sim, fs.result[j].sim)
        /\ fs.tier = "exact" => \A i \in 1..Len(fs.result) : fs.result[i].sim = SimOne

\* a search with limit 1 outside the exact tier returned the one more similar of two
\* stored stories that would both have been returned with limit 2
C31_Witness ==
    /\ fs.called /\ fs.limit = 1 /\ fs.tier # "exact" /\ Len(fs.result) = 1
    /\ LET both == find_similar_compute(db_rows, fs.query, fs.threshold, 2)
       IN  /\ Len(both) = 2
           /\ FracGT(both[1].sim, both[2].sim)
           /\ fs.result[1] = both[1]

\* C32: a story just judged whose judgment scores at least 5 (at least 4 when the
\* story analysed is an improved one) is stored as a golden example by the handler
\* that judged it, and a judged story below its threshold is not stored
C32_HighScoreAutoStored ==
    [][last'.out = "judged" =>
          LET shown == user_data'["last_analysis"]
              needed == IF last'.op = "analyze_improved" THEN 4 ELSE 5
          IN  IF extract_score_from_analysis(shown.analysis) >= needed
              THEN /\ Len(db_rows') = Len(db_rows) + 1
                   /\ db_rows'[Len(db_rows')].query = shown.story
                   /\ db_rows'[Len(db_rows')].is_golden
              ELSE db_rows' = db_rows]_vars

\* C33: every example the store holds, whether written by add_to_db or by the
\* auto-save of an improved story, has a score from 0 to 6, whatever the judge stated
C33_StoredScoreOnScale ==
    \A i \in 1..Len(db_rows) : db_rows[i].score \in 0..6

\* C34: each user's history holds at most max_history_depth entries, which are the
\* most recent ones in their order (a recorded analysis goes to the end of its
\* user's history, which then keeps its last max_history_depth entries, and no
\* other history changes), and the session counter is the number of users that
\* have a history
C34_HistoryBoundedAndCounted ==
    [][/\ \A u \in DOMAIN user_history' : Len(user_history'[u]) <= max_history_depth
       /\ user_sessions' = Cardinality(DOMAIN user_history')
       /\ last'.op = "add_to_user_history" =>
              LET u == last'.index
                  was == HistoryOf(user_history, u)
                  is == user_history'[u]
              IN  /\ DOMAIN user_history' = DOMAIN user_history \cup {u}
                  /\ \A v \in DOMAIN user_history : v # u => user_history'[v] = user_history[v]
                  /\ is # <<>>
                  /\ is[Len(is)].story \in HistoryStories
                  /\ SubSeq(is, 1, Len(is) - 1) =
                         IF Len(was) >= max_history_depth
                         THEN SubSeq(was, Len(was) - max_history_depth + 2, Len(was))
                         ELSE was]_vars

\* two users have a history, and the one written last lost its oldest entry
C34_Witness ==
    /\ last.op = "add_to_user_history" /\ last.out = "full"
    /\ DOMAIN user_history = Users /\ user_sessions = 2
    /\ Len(user_history[last.index]) = max_history_depth
    /\ user_history[last.index][1].story
           # user_history[last.index][max_history_depth].story

\* two results report the same tuples: the same stories, answers and scores with
\* equal similarities
SameResults(a, b) ==
    /\ Len(a) = Len(b)
    /\ \A i \in 1..Len(a) :
           /\ a[i].story = b[i].story /\ a[i].answer = b[i].answer
           /\ a[i].score = b[i].score
           /\ a[i].sim.n * b[i].sim.d = b[i].sim.n * a[i].sim.d

\* C35: with find_similar and add_example of different handlers interleaving, the
\* cache of find_similar holds no result from before the last completed
\* add_example: every cached result is what find_similar computes from the rows
\* the store holds now
C35_CacheNeverStale ==
    \A key \in DOMAIN db_cache :
        SameResults(db_cache[key], find_similar_compute(db_rows, key[1], key[2], key[3]))

\* the presses of "back" tried in a row
MaxBackPresses == 3

\* the handler's view of the session after "back" was pressed n times in a row
RECURSIVE BackPressed(_, _)
BackPressed(s, n) == IF n = 0 THEN s ELSE BackPressed(back(s, "ok"), n - 1)

\* C36: from every state a session reaches, pressing "back" again and again, with
\* nothing in between, leads to the main menu after finitely many presses
C36_BackReachesMainMenu ==
    \E n \in 0..MaxBackPresses : InMainMenu(BackPressed(Current, n).ud)

\* C37: when "improve_story" follows the message that submitted a story and had it
\* judged, the story it improves is that story, not a text an earlier story left
\* in the session
C37_ImprovesLatestStory ==
    [][(/\ last.op = "message" /\ last.out = "judged"
        /\ last'.op = "improve_story") =>
          /\ user_data["last_analysis"].story = user_data["initial_story"]
          /\ pending_story(user_data) = user_data["initial_story"]]_vars

\* C38: button "show_database" pressed on a main-menu screen (the message is
\* delivered) renders the first page of the store and leaves the session in
\* SHOWING_DATABASE, whatever happened before
C38_DatabaseButtonRendersFirstPage ==
    [][(/\ last'.op = "show_database" /\ last'.tr = "ok"
        /\ InMainMenu(user_data)) =>
          /\ last'.out = "database" /\ last'.index = 0
          /\ user_data'["current_state"] = SHOWING_DATABASE]_vars

\* the circuit was opened by the step
CircuitOpened ==
    /\ client'.circuit_open
    /\ ~client.circuit_open \/ client'.circuit_open_until # client.circuit_open_until

\* the circuit is open and its deadline has not passed
CircuitRefuses == client.circuit_open /\ now < client.circuit_open_until

\* C39: the circuit opens only at the end of a row of five failed requests (a
\* successful request, or the circuit closing on its timeout, begins a new row),
\* and while it is open and its deadline has not passed get_token and
\* get_chat_completion fail without sending a request
C39_CircuitBreaker ==
    [][/\ CircuitOpened => last'.index >= consecutive_failures
       /\ (CircuitRefuses /\ last'.op \in {"get_token", "get_chat_completion"}) =>
              /\ last'.out = "refused" /\ last'.judge_calls = 0
              /\ client' = client]_vars

\* C40: a call of _check_and_improve_story ends; it asks the judge at most
\* max_attempts times; and what it returns is the last candidate it has, which
\* either passes both tests or is the one left when no attempt remains
C40_CheckTerminates ==
    /\ [](/\ check_call.calls <= max_attempts
          /\ check_call.status # "idle" =>
                 /\ Len(check_call.candidates) <= 1 + check_call.calls
                 /\ Len(check_call.asked) = check_call.calls
          /\ check_call.status = "returned" =>
                 /\ check_call.result = check_call.candidates[Len(check_call.candidates)]
                 /\ Passes(check_call.result) \/ check_call.calls = max_attempts)
    /\ (check_call.status = "running") ~> (check_call.status # "running")

\* no candidate passed: the third one is returned after two calls of the judge
C40_Witness ==
    /\ check_call.status = "returned" /\ check_call.calls = max_attempts
    /\ \A i \in 1..Len(check_call.candidates) : ~Passes(check_call.candidates[i])
    /\ check_call.result # check_call.original_story
    /\ check_call.asked = <<"fix", "specific">>


====
